---- MODULE Spec2Model ----
(***************************************************************************)
(* A model of the semiphemeral job engine (src/app/src/jobs.py), of the    *)
(* deletion candidate selector (src/app/src/common.py) and of the          *)
(* dashboard actions that create and cancel jobs (src/app/src/web.py).     *)
(*                                                                         *)
(* Time is counted in days, as proleptic Gregorian ordinals (the value of  *)
(* datetime.toordinal()), so that the range check of datetime arithmetic   *)
(* keeps its real limits.                                                  *)
(***************************************************************************)
EXTENDS Integers, Sequences, FiniteSets, TLC

VARIABLES
    users,      \* User table: user id -> settings record
    tweets,     \* Tweet table: row id -> record
    threads,    \* Thread table: row id -> record
    now,        \* the clock, in days
    selected,   \* the last call of tweets_to_delete and what it returned
    recomputed, \* the last calls of calculate_excluded_threads
    likes,      \* Like table: row id -> record
    jobs,       \* Job table: job id -> record
    waiting,    \* the jobs not yet handed to a worker
    pc,         \* job id -> where the worker that runs the job stands
    loc,        \* job id -> the local variables of that worker
    calls,      \* job id -> the destroy calls and the waits of the job, in order
    ext,        \* the external service: reply links, statuses, likes
    nags,       \* Nag table: a set of records
    tips        \* Tip table: a set of records

storeVars == <<users, tweets, threads>>
engineVars == <<likes, jobs, waiting, pc, loc, calls, ext, nags, tips>>
vars == <<users, tweets, threads, now, selected, recomputed,
          likes, jobs, waiting, pc, loc, calls, ext, nags, tips>>

(***************************************************************************)
(* Bounds of the model.                                                    *)
(***************************************************************************)
\* engagement counts (retweet_count, like_count) range over 0..MaxCount
MaxCount == 2
\* the external service holds the statuses 1..MaxStatus
MaxStatus == 3
\* statuses per page of a paginated read
MaxPage == 2
\* transient errors one job meets
MaxErrors == 1
\* rate-limit errors one job meets, where the service gives any
MaxLimits == 1
\* days the clock advances
MaxDays == 1
\* seconds between the clock and the reset time a rate-limit error carries
MaxHint == 30
\* rows of the Job table that are not DM jobs
MaxJobs == 3
\* rows of the Job table that are DM jobs
MaxDms == 3
\* jobs that run at the same time
MaxRunning == 1

\* the requests to the web application that are logged
MaxRequests == 2

(***************************************************************************)
(* Constants of the program and of the datetime library it calls.          *)
(***************************************************************************)
\* datetime.min, as an ordinal: the subtraction of common.py:117 raises
\* OverflowError below it
MinOrdinal == 1
\* datetime.max, as an ordinal
MaxOrdinal == 3652059
\* timedelta(days=...) raises OverflowError beyond this magnitude
MaxTimedeltaDays == 999999999
\* datetime(2006, 7, 1), the fallback threshold of common.py:123
Epoch2006 == 732493

\* more than this many flagged likes within SixMonths days block the account
FascistLikesLimit == 4
SixMonths == 180

\* thread_id IS NULL
NoThread == 0
\* since_id IS NULL
NoSince == 0
\* in_reply_to_status_id_str is None
NoParent == 0

\* the clock of the pure-function specifications: 2023-01-01
Now0 == Epoch2006 + 6028

Users == {1, 2}

\* twitter_id of a user: the model numbers the external accounts like the users
TwitterId(u) == u

(***************************************************************************)
(* Sequence helpers.                                                       *)
(***************************************************************************)
Range(s) == {s[i] : i \in DOMAIN s}

RECURSIVE Orderings(_)
\* every order in which a query without ORDER BY may return the rows S
Orderings(S) ==
    IF S = {} THEN {<<>>}
    ELSE UNION {{<<x>> \o s : s \in Orderings(S \ {x})} : x \in S}

\* position at which a stable sort by created_at places row x of table tbl in
\* the sorted prefix s: after every element whose key is not greater
InsertPos(s, x, tbl) ==
    LET later == {i \in DOMAIN s : tbl[s[i]].created_at > tbl[x].created_at}
    IN  IF later = {} THEN Len(s) + 1
        ELSE CHOOSE i \in later : \A j \in later : i <= j

InsertAt(s, p, x) == SubSeq(s, 1, p - 1) \o <<x>> \o SubSeq(s, p, Len(s))

RECURSIVE SortFrom(_, _, _)
SortFrom(done, rest, tbl) ==
    IF rest = <<>> THEN done
    ELSE SortFrom(InsertAt(done, InsertPos(done, Head(rest), tbl), Head(rest)),
                  Tail(rest), tbl)

\* a mutant of the merge: the two query results are concatenated and not sorted
SortedByCreatedAt_Unsorted(s) == s

\* sorted(..., key=lambda tweet: tweet.created_at), on row ids
SortedByCreatedAt(s) == SortFrom(<<>>, s, tweets)

(***************************************************************************)
(* tweets_to_delete (common.py).  usr is the user object the caller holds. *)
(***************************************************************************)
\* datetime.utcnow() - timedelta(days=...), or 2006-07-01 on OverflowError
DatetimeThreshold(usr) ==
    LET days == usr.tweets_days_threshold
    IN  IF \/ days > MaxTimedeltaDays
           \/ days < 0 - MaxTimedeltaDays
           \/ now - days < MinOrdinal
           \/ now - days > MaxOrdinal
        THEN Epoch2006
        ELSE now - days

\* a mutant of the age filter: <= instead of <
OlderThan_Inclusive(t, threshold) == tweets[t].created_at <= threshold

\* .where(Tweet.created_at < datetime_threshold)
OlderThan(t, threshold) == tweets[t].created_at < threshold

\* a mutant of the common filters: is_retweet is not filtered
CommonFilters_KeepRetweets(usr, t, incl) ==
    /\ tweets[t].user_id = usr.id
    /\ tweets[t].twitter_user_id = usr.twitter_id
    /\ tweets[t].is_deleted = FALSE
    /\ OlderThan(t, DatetimeThreshold(usr))
    /\ usr.tweets_enable_retweet_threshold
          => tweets[t].retweet_count < usr.tweets_retweet_threshold
    /\ usr.tweets_enable_like_threshold
          => tweets[t].like_count < usr.tweets_like_threshold
    /\ ~incl => tweets[t].exclude_from_delete = FALSE

\* a mutant of the common filters: the like threshold is applied whether or
\* not its toggle is enabled
CommonFilters_LikeAlways(usr, t, incl) ==
    /\ tweets[t].user_id = usr.id
    /\ tweets[t].twitter_user_id = usr.twitter_id
    /\ tweets[t].is_deleted = FALSE
    /\ tweets[t].is_retweet = FALSE
    /\ OlderThan(t, DatetimeThreshold(usr))
    /\ usr.tweets_enable_retweet_threshold
          => tweets[t].retweet_count < usr.tweets_retweet_threshold
    /\ tweets[t].like_count < usr.tweets_like_threshold
    /\ ~incl => tweets[t].exclude_from_delete = FALSE

\* the conditions both queries share
CommonFilters(usr, t, incl) ==
    /\ tweets[t].user_id = usr.id
    /\ tweets[t].twitter_user_id = usr.twitter_id
    /\ tweets[t].is_deleted = FALSE
    /\ tweets[t].is_retweet = FALSE
    /\ OlderThan(t, DatetimeThreshold(usr))
    /\ usr.tweets_enable_retweet_threshold
          => tweets[t].retweet_count < usr.tweets_retweet_threshold
    /\ usr.tweets_enable_like_threshold
          => tweets[t].like_count < usr.tweets_like_threshold
    /\ ~incl => tweets[t].exclude_from_delete = FALSE

\* a mutant of the first query: Thread.should_exclude is not filtered
TweetsToDeleteWithThreads_AnyThread(usr, incl) ==
    {t \in DOMAIN tweets :
        /\ tweets[t].thread_id \in DOMAIN threads
        /\ CommonFilters(usr, t, incl)}

\* the first query: Tweet JOIN Thread, Thread.should_exclude == False
TweetsToDeleteWithThreads(usr, incl) ==
    {t \in DOMAIN tweets :
        /\ tweets[t].thread_id \in DOMAIN threads
        /\ threads[tweets[t].thread_id].should_exclude = FALSE
        /\ CommonFilters(usr, t, incl)}

\* the second query: Tweet.thread_id == None
TweetsToDeleteWithoutThreads(usr, incl) ==
    {t \in DOMAIN tweets :
        /\ tweets[t].thread_id = NoThread
        /\ CommonFilters(usr, t, incl)}

\* every list tweets_to_delete(usr, incl) may return in the current store
TweetsToDeleteResults(usr, incl) ==
    {SortedByCreatedAt(w \o n) :
        w \in Orderings(TweetsToDeleteWithThreads(usr, incl)),
        n \in Orderings(TweetsToDeleteWithoutThreads(usr, incl))}

NotCalled == [called |-> FALSE]

\* one call of tweets_to_delete by a caller that has just loaded the user
Select(u, incl) ==
    /\ u \in DOMAIN users
    /\ \E out \in TweetsToDeleteResults(users[u], incl) :
          selected' = [called |-> TRUE, user |-> u, incl |-> incl, out |-> out]
    /\ UNCHANGED <<users, tweets, threads, now, recomputed>>
    /\ UNCHANGED engineVars

(***************************************************************************)
(* calculate_excluded_threads (jobs.py).  usr is the user object the       *)
(* caller holds.                                                           *)
(***************************************************************************)
\* a mutant of the reset: the flag of every thread of the user is inverted
\* instead of cleared
ResetShouldExclude_Invert(th, uid) ==
    [x \in DOMAIN th |->
        IF th[x].user_id = uid
        THEN [th[x] EXCEPT !.should_exclude = ~th[x].should_exclude]
        ELSE th[x]]

\* Thread.update.values(should_exclude=False).where(Thread.user_id == user.id)
ResetShouldExclude(th, uid) ==
    [x \in DOMAIN th |->
        IF th[x].user_id = uid
        THEN [th[x] EXCEPT !.should_exclude = FALSE]
        ELSE th[x]]

\* a mutant of the query: the like threshold is not part of it
ExcludedThreadsQuery_RetweetOnly(th, usr) ==
    {x \in DOMAIN th :
        /\ th[x].user_id = usr.id
        /\ \E t \in DOMAIN tweets :
              /\ tweets[t].thread_id = x
              /\ tweets[t].user_id = usr.id
              /\ tweets[t].is_deleted = FALSE
              /\ tweets[t].is_retweet = FALSE
              /\ tweets[t].retweet_count >= usr.tweets_retweet_threshold}

\* Thread JOIN Tweet: the threads of the user th holds that have a live post
\* of the user, not a retweet, at or above both thresholds
ExcludedThreadsQuery(th, usr) ==
    {x \in DOMAIN th :
        /\ th[x].user_id = usr.id
        /\ \E t \in DOMAIN tweets :
              /\ tweets[t].thread_id = x
              /\ tweets[t].user_id = usr.id
              /\ tweets[t].is_deleted = FALSE
              /\ tweets[t].is_retweet = FALSE
              /\ tweets[t].retweet_count >= usr.tweets_retweet_threshold
              /\ tweets[t].like_count >= usr.tweets_like_threshold}

\* for thread in threads: thread.update(should_exclude=True)
MarkShouldExclude(th, marked) ==
    [x \in DOMAIN th |->
        IF x \in marked THEN [th[x] EXCEPT !.should_exclude = TRUE] ELSE th[x]]

\* the Thread table after calculate_excluded_threads(usr) has run on th
CalculateExcludedThreads(th, usr) ==
    LET cleared == ResetShouldExclude(th, usr.id)
    IN  IF usr.tweets_threads_threshold
        THEN MarkShouldExclude(cleared, ExcludedThreadsQuery(cleared, usr))
        ELSE cleared

\* the ids of the threads of user uid whose should_exclude is set
ExcludedThreadIds(th, uid) ==
    {x \in DOMAIN th : th[x].user_id = uid /\ th[x].should_exclude}

NotRecomputed == [runs |-> 0]

\* one call of calculate_excluded_threads by a caller that has just loaded the
\* user; recomputed counts the calls made in a row for the same user (up to 2)
\* and keeps the table as it was before the call and the flags the call before
\* left
Recompute(u) ==
    /\ u \in DOMAIN users
    /\ threads' = CalculateExcludedThreads(threads, users[u])
    /\ recomputed' =
          [runs   |-> IF recomputed.runs >= 1 /\ recomputed.user = u
                      THEN 2 ELSE 1,
           user   |-> u,
           before |-> threads,
           prev   |-> ExcludedThreadIds(threads, u)]
    /\ selected' = NotCalled
    /\ UNCHANGED <<users, tweets, now>>
    /\ UNCHANGED engineVars

(***************************************************************************)
(* Records of the store.                                                   *)
(***************************************************************************)
DefaultUser(u) ==
    [id |-> u, twitter_id |-> TwitterId(u),
     tweets_days_threshold |-> 30,
     tweets_enable_retweet_threshold |-> FALSE,
     tweets_retweet_threshold |-> 1,
     tweets_enable_like_threshold |-> FALSE,
     tweets_like_threshold |-> 1,
     tweets_threads_threshold |-> TRUE,
     paused |-> TRUE, blocked |-> FALSE, since_id |-> NoSince,
     delete_tweets |-> TRUE,
     retweets_likes |-> TRUE,
     retweets_likes_delete_retweets |-> TRUE,
     retweets_likes_retweets_threshold |-> 30,
     retweets_likes_delete_likes |-> TRUE,
     retweets_likes_likes_threshold |-> 30,
     direct_messages |-> FALSE,
     direct_messages_threshold |-> 7]

TweetRow(tid, u, author, created, rt, deleted, excl, th, rc, lc) ==
    [twitter_id |-> tid, user_id |-> u, twitter_user_id |-> author,
     created_at |-> created,
     is_retweet |-> rt, is_deleted |-> deleted, exclude_from_delete |-> excl,
     thread_id |-> th, retweet_count |-> rc, like_count |-> lc]

ThreadRow(u, conv, excl) ==
    [user_id |-> u, conversation_id |-> conv, should_exclude |-> excl]

\* the threads a tweet row of user u may point to in table th
ThreadsOf(th, u) == {x \in DOMAIN th : th[x].user_id = u}

\* the engine at rest: no job, no like, no external status
EngineIdle ==
    /\ likes = <<>>
    /\ jobs = <<>>
    /\ waiting = {}
    /\ pc = <<>>
    /\ loc = <<>>
    /\ calls = <<>>
    /\ ext = [parent |-> <<>>, retweets |-> {}, liked |-> <<>>, fascist |-> FALSE,
              rate_limits |-> 0, dms |-> <<>>, follow_errors |-> FALSE,
              lanes |-> FALSE, crashes |-> FALSE]
    /\ nags = {}
    /\ tips = {}

(***************************************************************************)
(* The external service.  Status s was created 50 - 5s days ago; status 2  *)
(* has MaxCount retweets and likes, the others none.                       *)
(***************************************************************************)
StatusIds == 1..MaxStatus

StatusCreatedAt(s) == Now0 - 50 + 5 * s

StatusCount(s) == IF s = 2 THEN MaxCount ELSE 0

\* the one status the user has liked, 40 days ago
LikedStatus == 11
LikedCreatedAt(s) == Now0 - 40

Max(S) == CHOOSE m \in S : \A x \in S : x <= m
Min2(a, b) == IF a <= b THEN a ELSE b

RECURSIVE NewestFirst(_)
NewestFirst(S) ==
    IF S = {} THEN <<>> ELSE <<Max(S)>> \o NewestFirst(S \ {Max(S)})

\* api.user_timeline(since_id=...): the statuses after since_id, newest first
Timeline(since) == NewestFirst({s \in StatusIds : s > since})

\* api.get_favorites(since_id=...)
LikesTimeline(since) == SelectSeq(ext.liked, LAMBDA s : s > since)

(***************************************************************************)
(* Jobs and workers.                                                       *)
(***************************************************************************)
NoUser == [id |-> 0]

\* data["progress"] as the row of the job holds it before a delete job has
\* stored any count
NoProgress ==
    [tweets_deleted |-> 0, retweets_deleted |-> 0, likes_deleted |-> 0,
     dms_deleted |-> 0, dms_skipped |-> 0]

\* the local variables of a worker that has not started
NoLoc ==
    [usr |-> NoUser, since_id |-> NoSince, todo |-> <<>>, inpage |-> 0,
     conv |-> 0, reply_to |-> NoParent, cache |-> <<>>, errors |-> 0,
     tweets_fetched |-> 0, likes_fetched |-> 0,
     list |-> <<>>, all |-> <<>>, tweets_deleted |-> 0, retweets_deleted |-> 0, likes_deleted |-> 0,
     lookups_ok |-> TRUE, from_cache |-> FALSE, reupserted |-> FALSE,
     limited |-> 0, dms |-> <<>>, token |-> 0, dms_deleted |-> 0,
     dms_skipped |-> 0,
     saved |-> NoProgress, loop |-> "", sleep |-> 0]

\* a new row of the Job table; uid is 0 for a job that has no owner, data is
\* the payload
JobRow(type, uid, origin, data) ==
    [job_type |-> type, status |-> "pending", user_id |-> uid,
     finished_timestamp |-> FALSE, origin |-> origin, data |-> data,
     scheduled_timestamp |-> now, queue |-> "", retry |-> <<>>]

\* Retry(max=3, interval=[60, 120, 240]): the seconds before each
\* re-delivery of a job whose execution failed
RetryIntervals == <<60, 120, 240>>

\* a job enqueued without retry= is not delivered again
NoRetry == <<>>

\* q.enqueue(func, id, retry=...) and q.enqueue_at(when, func, id): the row
\* of the job with the queue it waits in and its retry policy
Enqueue(row, q, retry) == [row EXCEPT !.queue = q, !.retry = retry]

NoData == [dest |-> 0]

NewJobId == Cardinality(DOMAIN jobs) + 1

DmJobs == {j \in DOMAIN jobs : jobs[j].job_type = "dm"}

CanCreate == Cardinality(DOMAIN jobs \ DmJobs) < MaxJobs

CanCreateDms(n) == Cardinality(DmJobs) + n <= MaxDms

\* JobDetails.create(...) followed by enqueue on a lane of the queue: the row
\* is added to table jb, and a worker slot f is added for the job
AddJob(jb, row) == jb @@ (NewJobId :> row)
AddWorker(f, v) == f @@ (NewJobId :> v)

Running == {j \in DOMAIN jobs : pc[j] \notin {"idle", "done"}}

\* job_details.update(status=..., finished_timestamp=datetime.now())
Finish(jb, j, st) ==
    [jb EXCEPT ![j].status = st, ![j].finished_timestamp = TRUE]

\* the jobs whose handlers are decorated with the three guards
Guarded == {"fetch", "delete", "delete_dms", "delete_dm_groups"}

FirstStep(type) ==
    CASE type \in Guarded -> "creds"
      [] type = "dm" -> "m_start"
      [] type = "block" -> "b_start"
      [] type = "unblock" -> "u_start"
      [] OTHER -> "idle"

\* the running jobs that hold the workers job j waits for: the workers serve
\* every lane, or each lane has workers of its own
Busy(j) ==
    IF ext.lanes THEN {k \in Running : jobs[k].queue = jobs[j].queue} ELSE Running

\* job j is due and a worker is free to take it
CanStart(j) ==
    /\ j \in waiting
    /\ pc[j] = "idle"
    /\ FirstStep(jobs[j].job_type) # "idle"
    /\ Cardinality(Busy(j)) < MaxRunning
    /\ jobs[j].scheduled_timestamp <= now

\* job j can be taken by a worker
Startable(j) ==
    /\ CanStart(j)
    /\ jobs[j].origin = "web" => jobs[j].status = "pending"

\* a worker takes job j from its queue.  A job enqueued by the engine is
\* delivered whatever its status is by then; a job row created by the
\* dashboard is picked up while it is pending.
Start(j) ==
    /\ Startable(j)
    /\ waiting' = waiting \ {j}
    /\ pc' = [pc EXCEPT ![j] = FirstStep(jobs[j].job_type)]
    /\ UNCHANGED <<users, tweets, threads, now, selected, recomputed,
                   likes, jobs, loc, calls, ext, nags, tips>>

\* a mutant of the guard: the wrapper does not return after it canceled
GuardCreds_NoReturn(j) ==
    /\ pc[j] = "creds"
    /\ LET uid == jobs[j].user_id
       IN  \/ /\ pc' = [pc EXCEPT ![j] = "follow"]
              /\ UNCHANGED <<users, jobs, calls>>
           \/ /\ uid \in DOMAIN users
              /\ users' = [users EXCEPT ![uid].paused = TRUE]
              /\ jobs' = Finish(jobs, j, "canceled")
              /\ calls' = [calls EXCEPT ![j] =
                              Append(@, <<"verify_credentials", "unauthorized">>)]
              /\ pc' = [pc EXCEPT ![j] = "follow"]
    /\ UNCHANGED <<tweets, threads, now, selected, recomputed,
                   likes, waiting, loc, ext, nags, tips>>

\* test_api_creds: verify_credentials succeeds, or raises Unauthorized
GuardCreds(j) ==
    /\ pc[j] = "creds"
    /\ LET uid == jobs[j].user_id
       IN  \/ /\ pc' = [pc EXCEPT ![j] = "follow"]
              /\ UNCHANGED <<users, jobs, calls>>
           \/ /\ uid \in DOMAIN users
              /\ users' = [users EXCEPT ![uid].paused = TRUE]
              /\ jobs' = Finish(jobs, j, "canceled")
              /\ calls' = [calls EXCEPT ![j] =
                              Append(@, <<"verify_credentials", "unauthorized">>)]
              /\ pc' = [pc EXCEPT ![j] = "done"]
    /\ UNCHANGED <<tweets, threads, now, selected, recomputed,
                   likes, waiting, loc, ext, nags, tips>>

\* a worker takes from its queue a job whose row is no longer in the table;
\* the handlers of the guarded jobs start alike
StartMissing(j) ==
    /\ j \in waiting
    /\ j \notin DOMAIN jobs
    /\ pc[j] = "idle"
    /\ waiting' = waiting \ {j}
    /\ pc' = [pc EXCEPT ![j] = "creds"]
    /\ UNCHANGED <<users, tweets, threads, now, selected, recomputed,
                   likes, jobs, loc, calls, ext, nags, tips>>

\* test_api_creds when the query for the job returns None: reading
\* job_details.user_id raises, and the execution fails
GuardCredsMissing(j) ==
    /\ pc[j] = "creds"
    /\ j \notin DOMAIN jobs
    /\ pc' = [pc EXCEPT ![j] = "failed"]
    /\ UNCHANGED <<users, tweets, threads, now, selected, recomputed,
                   likes, jobs, waiting, loc, calls, ext, nags, tips>>

\* the first step of the handler that the guards decorate
BodyStart(type) ==
    CASE type = "fetch" -> "f_start"
      [] type = "delete" -> "d_start"
      [] OTHER -> "x_start"

\* a mutant of the guard: an error of create_friendship is not caught
GuardFollow_CreateRaises(j) ==
    /\ pc[j] = "follow"
    /\ \/ /\ pc' = [pc EXCEPT ![j] = BodyStart(jobs[j].job_type)]
          /\ UNCHANGED calls
       \/ /\ jobs[j].user_id \in DOMAIN users
          /\ ext.follow_errors
          /\ calls' = [calls EXCEPT ![j] =
                          Append(@, <<"create_friendship", "error">>)]
          /\ pc' = [pc EXCEPT ![j] = "failed"]
       \/ /\ jobs[j].user_id \in DOMAIN users
          /\ ext.follow_errors
          /\ calls' = [calls EXCEPT ![j] =
                          Append(@, <<"lookup_friendships", "error">>)]
          /\ pc' = [pc EXCEPT ![j] = "failed"]
    /\ UNCHANGED <<users, tweets, threads, now, selected, recomputed,
                   likes, jobs, waiting, loc, ext, nags, tips>>

\* ensure_user_follows_us: the account follows the system account, or is
\* made to follow it, or there is no user, and the handler is called; or
\* create_friendship raises, which is logged and ignored; or
\* lookup_friendships raises, which nothing catches.  The calls fail only
\* where the service is drawn so (ext.follow_errors).
GuardFollow(j) ==
    /\ pc[j] = "follow"
    /\ \/ /\ pc' = [pc EXCEPT ![j] = BodyStart(jobs[j].job_type)]
          /\ UNCHANGED calls
       \/ /\ jobs[j].user_id \in DOMAIN users
          /\ ext.follow_errors
          /\ calls' = [calls EXCEPT ![j] =
                          Append(@, <<"create_friendship", "error">>)]
          /\ pc' = [pc EXCEPT ![j] = BodyStart(jobs[j].job_type)]
       \/ /\ jobs[j].user_id \in DOMAIN users
          /\ ext.follow_errors
          /\ calls' = [calls EXCEPT ![j] =
                          Append(@, <<"lookup_friendships", "error">>)]
          /\ pc' = [pc EXCEPT ![j] = "failed"]
    /\ UNCHANGED <<users, tweets, threads, now, selected, recomputed,
                   likes, jobs, waiting, loc, ext, nags, tips>>

(***************************************************************************)
(* The selector on drawn stores: four posts of user 1 aged 10, 29, 31 and  *)
(* 40 days, and a fifth row drawn over every field the queries read.       *)
(***************************************************************************)
SelThreads ==
    (1 :> ThreadRow(1, 101, TRUE)) @@ (2 :> ThreadRow(1, 102, FALSE))
        @@ (3 :> ThreadRow(2, 103, FALSE))

SelBaseTweets ==
    (1 :> TweetRow(1, 1, 1, Now0 - 10, FALSE, FALSE, FALSE, 2, 0, 0))
        @@ (2 :> TweetRow(2, 1, 1, Now0 - 29, FALSE, FALSE, FALSE, NoThread, 0, 0))
        @@ (3 :> TweetRow(3, 1, 1, Now0 - 31, FALSE, FALSE, FALSE, 2, MaxCount, MaxCount))
        @@ (4 :> TweetRow(4, 1, 1, Now0 - 40, FALSE, FALSE, FALSE, NoThread, 0, 0))

\* ages on both sides of a 30-day threshold, and a date before 2006-07-01
SelCreatedAt == {Now0 - 40, Now0 - 31, Now0 - 30, Now0 - 29, Epoch2006 - 1}

\* 30 days, and a number of days that takes the subtraction below datetime.min
SelDays == {30, 800000}

InitSel ==
    /\ now = Now0
    /\ threads = SelThreads
    /\ \E days \in SelDays, ert \in BOOLEAN, elk \in BOOLEAN :
          users = [u \in Users |->
                      IF u = 1
                      THEN [DefaultUser(1) EXCEPT
                               !.tweets_days_threshold = days,
                               !.tweets_enable_retweet_threshold = ert,
                               !.tweets_enable_like_threshold = elk]
                      ELSE DefaultUser(u)]
    /\ \E u \in Users, author \in Users, created \in SelCreatedAt,
          rt \in BOOLEAN, deleted \in BOOLEAN, excl \in BOOLEAN,
          rc \in 0..MaxCount, lc \in 0..MaxCount :
          \E th \in {NoThread} \cup ThreadsOf(SelThreads, u) :
             /\ u = 2 => author = 2
             /\ tweets = SelBaseTweets
                   @@ (5 :> TweetRow(5, u, author, created, rt, deleted, excl, th, rc, lc))
    /\ selected = NotCalled
    /\ recomputed = NotRecomputed
    /\ EngineIdle

NextSel == \E u \in Users, incl \in BOOLEAN : Select(u, incl)

SpecSel == InitSel /\ [][NextSel]_vars

(***************************************************************************)
(* Claims about the selector, under SpecSel.                               *)
(***************************************************************************)
SelOut == IF selected.called THEN Range(selected.out) ELSE {}

\* C3: tweets_to_delete never returns a post that is a retweet, is already
\* deleted, or is in a thread whose should_exclude is true; it returns a
\* manually excluded post only when include_manually_excluded is true.
C3_SelectorNeverReturnsProtected ==
    selected.called =>
        \A t \in SelOut :
            /\ ~tweets[t].is_retweet
            /\ ~tweets[t].is_deleted
            /\ tweets[t].thread_id # NoThread
                  => ~threads[tweets[t].thread_id].should_exclude
            /\ ~selected.incl => ~tweets[t].exclude_from_delete

\* an overriding call on a store whose fifth row is an old post of the user,
\* manually excluded and in an excluded thread: the override does not lift the
\* thread's protection, and the row is left out
C3_Witness ==
    /\ selected.called /\ selected.user = 1 /\ selected.incl
    /\ tweets[5] = TweetRow(5, 1, 1, now - 40, FALSE, FALSE, TRUE, 1, 0, 0)
    /\ SelOut = {3, 4}

\* C4 as stated: every returned post is strictly older than T - N days,
\* whatever N is.
C4_Original_OlderThanNowMinusDays ==
    selected.called =>
        \A t \in SelOut :
            tweets[t].created_at < now - users[selected.user].tweets_days_threshold

\* C4 as amended: when T - N days is a representable date every returned post
\* is strictly older than it (a post created exactly then is not returned);
\* when it is not, every returned post is strictly older than 2006-07-01.
\* With N = 30 and both engagement toggles off, of the posts aged 10, 29, 31
\* and 40 days exactly the last two are returned.
C4_OlderThanThresholdOrEpoch ==
    selected.called =>
        LET usr == users[selected.user]
            cut == now - usr.tweets_days_threshold
        IN  /\ cut \in MinOrdinal..MaxOrdinal
                  => \A t \in SelOut : tweets[t].created_at < cut
            /\ cut \notin MinOrdinal..MaxOrdinal
                  => \A t \in SelOut : tweets[t].created_at < Epoch2006
            /\ ( /\ selected.user = 1
                 /\ usr.tweets_days_threshold = 30
                 /\ ~usr.tweets_enable_retweet_threshold
                 /\ ~usr.tweets_enable_like_threshold )
                  => SelOut \cap {1, 2, 3, 4} = {3, 4}

\* a call with N = 30 and the toggles off, on a store that holds an otherwise
\* eligible post created exactly 30 days ago
C4_Witness ==
    /\ selected.called /\ selected.user = 1
    /\ users[1].tweets_days_threshold = 30
    /\ ~users[1].tweets_enable_retweet_threshold
    /\ ~users[1].tweets_enable_like_threshold
    /\ tweets[5] = TweetRow(5, 1, 1, now - 30, FALSE, FALSE, FALSE, 2, 0, 0)
    /\ SelOut = {3, 4}

\* the age threshold as the claims state it
ClaimedThreshold(usr) ==
    IF now - usr.tweets_days_threshold \in MinOrdinal..MaxOrdinal
    THEN now - usr.tweets_days_threshold
    ELSE Epoch2006

\* C6: tweets_to_delete returns exactly the eligible posts, each once: a post
\* the user owns and wrote is returned if and only if it is not deleted, not
\* a retweet, older than the threshold, in no thread or in a thread that is
\* not excluded, below each engagement threshold whose toggle is on, and not
\* manually excluded unless overridden; no post comes from both queries.
C6_SelectorReturnsExactlyEligible ==
    selected.called =>
        LET usr == users[selected.user]
            Eligible(t) ==
                /\ ~tweets[t].is_deleted
                /\ ~tweets[t].is_retweet
                /\ tweets[t].created_at < ClaimedThreshold(usr)
                /\ \/ tweets[t].thread_id = NoThread
                   \/ ~threads[tweets[t].thread_id].should_exclude
                /\ usr.tweets_enable_retweet_threshold
                      => tweets[t].retweet_count < usr.tweets_retweet_threshold
                /\ usr.tweets_enable_like_threshold
                      => tweets[t].like_count < usr.tweets_like_threshold
                /\ selected.incl \/ ~tweets[t].exclude_from_delete
        IN  /\ \A t \in DOMAIN tweets :
                  t \in SelOut <=>
                      /\ tweets[t].user_id = selected.user
                      /\ tweets[t].twitter_user_id = TwitterId(selected.user)
                      /\ Eligible(t)
            /\ Len(selected.out) = Cardinality(SelOut)
            /\ TweetsToDeleteWithThreads(usr, selected.incl)
                  \cap TweetsToDeleteWithoutThreads(usr, selected.incl) = {}

\* a call that returned a post of a thread and a post without one, and left
\* out a post that is at the like threshold while the like toggle is on
C6_Witness ==
    /\ selected.called /\ selected.user = 1 /\ ~selected.incl
    /\ users[1].tweets_enable_like_threshold
    /\ ~users[1].tweets_enable_retweet_threshold
    /\ SelOut = {4, 5}
    /\ tweets[5].thread_id = 2
    /\ tweets[5].retweet_count = MaxCount

(***************************************************************************)
(* The exclusion recompute on drawn stores: two threads of user 1 and one  *)
(* of user 2 with drawn (stale) flags, an unpopular old post in each       *)
(* thread of user 1, a popular post in the thread of user 2, and a fourth  *)
(* row drawn over every field the recompute reads.                         *)
(***************************************************************************)
ExclRetweetCounts == {0, 9, 10, 50}
ExclLikeCounts == {0, 4, 5}

ExclUsers(protect) ==
    [u \in Users |->
        [DefaultUser(u) EXCEPT
            !.tweets_enable_retweet_threshold = TRUE,
            !.tweets_retweet_threshold = 10,
            !.tweets_enable_like_threshold = TRUE,
            !.tweets_like_threshold = 5,
            !.tweets_threads_threshold = IF u = 1 THEN protect ELSE TRUE]]

ExclBaseTweets ==
    (1 :> TweetRow(1, 1, 1, Now0 - 40, FALSE, FALSE, FALSE, 1, 0, 0))
        @@ (2 :> TweetRow(2, 1, 1, Now0 - 40, FALSE, FALSE, FALSE, 2, 0, 0))
        @@ (3 :> TweetRow(3, 2, 2, Now0 - 40, FALSE, FALSE, FALSE, 3, 50, 5))

InitExcl ==
    /\ now = Now0
    /\ \E protect \in BOOLEAN : users = ExclUsers(protect)
    /\ \E e1 \in BOOLEAN, e2 \in BOOLEAN, e3 \in BOOLEAN :
          threads = (1 :> ThreadRow(1, 101, e1)) @@ (2 :> ThreadRow(1, 102, e2))
                       @@ (3 :> ThreadRow(2, 103, e3))
    /\ \E th \in {1, 2, 3}, rt \in BOOLEAN, deleted \in BOOLEAN,
          rc \in ExclRetweetCounts, lc \in ExclLikeCounts :
          LET u == IF th = 3 THEN 2 ELSE 1
          IN  tweets = ExclBaseTweets
                 @@ (4 :> TweetRow(4, u, u, Now0 - 40, rt, deleted, FALSE, th, rc, lc))
    /\ selected = NotCalled
    /\ recomputed = NotRecomputed
    /\ EngineIdle

NextExcl ==
    \/ \E u \in Users : Recompute(u)
    \/ \E u \in Users, incl \in BOOLEAN : Select(u, incl)

SpecExcl == InitExcl /\ [][NextExcl]_vars

(***************************************************************************)
(* Claims about the exclusion recompute, under SpecExcl.                   *)
(***************************************************************************)
\* thread x holds a live post, not a retweet, at or above both thresholds of
\* the user record usr
HasProtectingPost(x, usr) ==
    \E t \in DOMAIN tweets :
        /\ tweets[t].thread_id = x
        /\ ~tweets[t].is_retweet
        /\ ~tweets[t].is_deleted
        /\ tweets[t].retweet_count >= usr.tweets_retweet_threshold
        /\ tweets[t].like_count >= usr.tweets_like_threshold

\* C7: after calculate_excluded_threads(user), a thread of the user has
\* should_exclude set if and only if thread protection is enabled and the
\* thread holds a live post, not a retweet, at or above both thresholds; the
\* threads of other users are as they were before the call.
C7_ExcludedIffProtectingPost ==
    recomputed.runs >= 1 =>
        LET usr == users[recomputed.user]
        IN  \A x \in DOMAIN threads :
                IF threads[x].user_id = recomputed.user
                THEN threads[x].should_exclude
                        <=> (usr.tweets_threads_threshold /\ HasProtectingPost(x, usr))
                ELSE threads[x] = recomputed.before[x]

\* a recompute for user 1 that set the flag of thread 1 because of the drawn
\* post, cleared the stale flag of thread 2 and left the set flag of the
\* thread of user 2 alone
C7_Witness ==
    /\ recomputed.runs = 1 /\ recomputed.user = 1
    /\ tweets[4].thread_id = 1
    /\ ~recomputed.before[1].should_exclude /\ threads[1].should_exclude
    /\ recomputed.before[2].should_exclude /\ ~threads[2].should_exclude
    /\ recomputed.before[3].should_exclude /\ threads[3].should_exclude

\* C8: a second calculate_excluded_threads(user) in a row, with no change to
\* posts, threads or settings in between, leaves the same set of threads
\* with should_exclude set as the first one left.
C8_RecomputeIdempotent ==
    recomputed.runs = 2 =>
        ExcludedThreadIds(threads, recomputed.user) = recomputed.prev

\* two recomputes in a row for user 1, each of which left exactly thread 1
\* excluded, because of the drawn post
C8_Witness ==
    /\ recomputed.runs = 2 /\ recomputed.user = 1
    /\ ExcludedThreadIds(threads, 1) = {1}
    /\ tweets[4].thread_id = 1

\* thread x of user 1 holds a live post, not a retweet, with retweet_count 50
\* while the retweet threshold is 10
HasPostWith50Retweets(x) ==
    /\ users[1].tweets_retweet_threshold = 10
    /\ users[1].tweets_threads_threshold
    /\ threads[x].user_id = 1
    /\ \E t \in DOMAIN tweets :
          /\ tweets[t].thread_id = x
          /\ tweets[t].retweet_count = 50
          /\ ~tweets[t].is_retweet /\ ~tweets[t].is_deleted

\* the same, and the like_count of that post is at or above the like threshold
HasPostWith50RetweetsAndLikes(x) ==
    /\ users[1].tweets_retweet_threshold = 10
    /\ users[1].tweets_threads_threshold
    /\ threads[x].user_id = 1
    /\ \E t \in DOMAIN tweets :
          /\ tweets[t].thread_id = x
          /\ tweets[t].retweet_count = 50
          /\ tweets[t].like_count >= users[1].tweets_like_threshold
          /\ ~tweets[t].is_retweet /\ ~tweets[t].is_deleted

\* after a recompute for user 1, thread x is excluded and no call of the
\* selector made since returned a post of it
ExcludedAndNotSelected(x) ==
    /\ threads[x].should_exclude
    /\ selected.called =>
          \A t \in SelOut : tweets[t].thread_id # x

\* C9 as stated: with thread protection on, a thread holding a post with
\* retweet_count 50 against a retweet threshold of 10 is excluded by the
\* recompute, and none of its posts is a delete candidate afterwards.
C9_Original_FiftyRetweetsExclude ==
    (recomputed.runs >= 1 /\ recomputed.user = 1) =>
        \A x \in DOMAIN threads :
            HasPostWith50Retweets(x) => ExcludedAndNotSelected(x)

\* C9 as amended: the same when the like_count of that post is also at or
\* above the like threshold.
C9_FiftyRetweetsAndLikesExclude ==
    (recomputed.runs >= 1 /\ recomputed.user = 1) =>
        \A x \in DOMAIN threads :
            HasPostWith50RetweetsAndLikes(x) => ExcludedAndNotSelected(x)

\* thread 1 holds the drawn post with 50 retweets and enough likes; after the
\* recompute the selector was called and returned the post of thread 2 only,
\* though the other post of thread 1 is below both thresholds
C9_Witness ==
    /\ recomputed.runs >= 1 /\ recomputed.user = 1
    /\ HasPostWith50RetweetsAndLikes(1)
    /\ tweets[4].thread_id = 1
    /\ ~recomputed.before[1].should_exclude
    /\ selected.called /\ selected.user = 1 /\ SelOut = {2}

(***************************************************************************)
(* The fetch job (jobs.py, fetch).                                         *)
(***************************************************************************)
OtherVars == <<now, selected, recomputed, ext, nags, tips>>

\* what a call of the external service by the worker of job j may give: a
\* result, or the rate-limit error while the service still gives any
Outcomes(j) ==
    {"ok"} \cup (IF loc[j].limited < ext.rate_limits THEN {"rate_limit"} ELSE {})

Limited(l, o) == IF o = "rate_limit" THEN [l EXCEPT !.limited = @ + 1] ELSE l

\* asyncio.sleep(30)
TransientBackoff == 30

\* a mutant of the handler: the error is logged and the worker does not wait
HandleTweepyException_NoSleep(log) == log

\* handle_tweepy_exception: the worker sleeps; log is the log of the job
HandleTweepyException(log) == Append(log, <<"sleep", TransientBackoff>>)

\* job_details.update(status="active", started_timestamp=...)
FetchStart(j) ==
    /\ pc[j] = "f_start"
    /\ jobs' = [jobs EXCEPT ![j].status = "active"]
    /\ pc' = [pc EXCEPT ![j] = "f_user"]
    /\ UNCHANGED <<users, tweets, threads, likes, waiting, loc, calls>>
    /\ UNCHANGED OtherVars

\* the user is loaded; a missing user cancels the job
FetchLoadUser(j) ==
    /\ pc[j] = "f_user"
    /\ LET uid == jobs[j].user_id
       IN  IF uid \notin DOMAIN users
           THEN /\ jobs' = Finish(jobs, j, "canceled")
                /\ pc' = [pc EXCEPT ![j] = "done"]
                /\ loc' = loc
           ELSE /\ loc' = [loc EXCEPT ![j].usr = users[uid],
                                      ![j].since_id = users[uid].since_id,
                                      ![j].todo = Timeline(users[uid].since_id)]
                /\ pc' = [pc EXCEPT ![j] = "f_page"]
                /\ jobs' = jobs
    /\ UNCHANGED <<users, tweets, threads, likes, waiting, calls>>
    /\ UNCHANGED OtherVars

\* what the worker sets when it starts on status s of the page
BeginStatus(l, s) ==
    [l EXCEPT !.conv = s,
              !.reply_to = ext.parent[s],
              !.lookups_ok = TRUE,
              !.from_cache = FALSE]

AfterBegin(s) == IF ext.parent[s] # NoParent THEN "f_resolve" ELSE "f_upsert"

\* the cursor of api.user_timeline yields the next page, or raises
\* TwitterServerError, after which the pagination starts over
FetchTweetsPage(j) ==
    /\ pc[j] = "f_page"
    /\ \/ /\ loc[j].todo = <<>>
          /\ loc' = [loc EXCEPT ![j].todo = LikesTimeline(loc[j].since_id)]
          /\ pc' = [pc EXCEPT ![j] = "l_page"]
          /\ UNCHANGED calls
       \/ /\ loc[j].todo # <<>>
          /\ loc' = [loc EXCEPT ![j] =
                        [BeginStatus(loc[j], Head(loc[j].todo)) EXCEPT
                            !.inpage = Min2(MaxPage, Len(loc[j].todo))]]
          /\ pc' = [pc EXCEPT ![j] = AfterBegin(Head(loc[j].todo))]
          /\ UNCHANGED calls
       \/ /\ loc[j].errors < MaxErrors
          /\ loc' = [loc EXCEPT ![j].errors = @ + 1,
                                ![j].todo = Timeline(loc[j].since_id)]
          /\ calls' = [calls EXCEPT ![j] = HandleTweepyException(@)]
          /\ pc' = pc
    /\ UNCHANGED <<users, tweets, threads, likes, jobs, waiting>>
    /\ UNCHANGED OtherVars

\* the cursor raises the rate-limit error, which is no TwitterServerError:
\* no handler of fetch catches it and the worker leaves the job as it is
FetchPageRateLimit(j) ==
    /\ pc[j] \in {"f_page", "l_page"}
    /\ "rate_limit" \in Outcomes(j)
    /\ calls' = [calls EXCEPT ![j] = Append(@, <<pc[j], 0, "rate_limit">>)]
    /\ loc' = [loc EXCEPT ![j].limited = @ + 1]
    /\ pc' = [pc EXCEPT ![j] = "failed"]
    /\ UNCHANGED <<users, tweets, threads, likes, jobs, waiting>>
    /\ UNCHANGED OtherVars

\* a mutant of the walk: when the root is found the loop is left without
\* taking the root's id as the conversation id
WalkTuple_RootNotTaken(l, tuple) ==
    IF tuple.parent = NoParent
    THEN l
    ELSE [l EXCEPT !.conv = tuple.id, !.reply_to = tuple.parent]

\* the end of one turn of the walk, on the tuple (_id, _in_reply_to_id)
WalkTuple(l, tuple) ==
    IF tuple.parent = NoParent
    THEN [l EXCEPT !.conv = tuple.id]
    ELSE [l EXCEPT !.conv = tuple.id, !.reply_to = tuple.parent]

AfterWalk(tuple) == IF tuple.parent = NoParent THEN "f_upsert" ELSE "f_resolve"

\* a mutant of the break: the id whose lookup failed is taken as the
\* conversation id
BreakWalk_TakesParent(l) == [l EXCEPT !.lookups_ok = FALSE, !.conv = l.reply_to]

\* except: break -- api.get_status failed: the walk is left, and
\* conversation_id keeps the value the turns before gave it
BreakWalk(l) == [l EXCEPT !.lookups_ok = FALSE]

\* one turn of the loop that follows the reply links of the current status:
\* the tuple comes from the cache, or from api.get_status, which may fail
FetchResolve(j) ==
    /\ pc[j] = "f_resolve"
    /\ LET l == loc[j]
           r == l.reply_to
       IN  \/ /\ r \in DOMAIN l.cache
              /\ loc' = [loc EXCEPT ![j] =
                            WalkTuple([l EXCEPT !.from_cache = TRUE], l.cache[r])]
              /\ pc' = [pc EXCEPT ![j] = AfterWalk(l.cache[r])]
           \/ /\ r \notin DOMAIN l.cache
              /\ r \in DOMAIN ext.parent
              /\ LET tuple == [id |-> r, parent |-> ext.parent[r]]
                 IN  /\ loc' = [loc EXCEPT ![j] =
                                  WalkTuple([l EXCEPT !.cache = (r :> tuple) @@ l.cache],
                                            tuple)]
                     /\ pc' = [pc EXCEPT ![j] = AfterWalk(tuple)]
           \/ /\ r \notin DOMAIN l.cache
              /\ loc' = [loc EXCEPT ![j] = BreakWalk(l)]
              /\ pc' = [pc EXCEPT ![j] = "f_upsert"]
    /\ UNCHANGED <<users, tweets, threads, likes, jobs, waiting, calls>>
    /\ UNCHANGED OtherVars

\* api.get_status raises the rate-limit error: the bare except leaves the
\* walk, as for any other failure
FetchResolveRateLimit(j) ==
    /\ pc[j] = "f_resolve"
    /\ loc[j].reply_to \notin DOMAIN loc[j].cache
    /\ "rate_limit" \in Outcomes(j)
    /\ calls' = [calls EXCEPT ![j] =
                    Append(@, <<"lookup", loc[j].reply_to, "rate_limit">>)]
    /\ loc' = [loc EXCEPT ![j] = [BreakWalk(loc[j]) EXCEPT !.limited = @ + 1]]
    /\ pc' = [pc EXCEPT ![j] = "f_upsert"]
    /\ UNCHANGED <<users, tweets, threads, likes, jobs, waiting>>
    /\ UNCHANGED OtherVars

\* the author the Tweet table records for a row that fetch creates: the
\* owning account (user_timeline returns the account's own statuses)
NewTweetAuthor(usr) == usr.twitter_id

ThreadFor(th, uid, conv) ==
    {x \in DOMAIN th : th[x].user_id = uid /\ th[x].conversation_id = conv}

\* a mutant of the query for the row of a status: no row is found
TweetFor_NotFound(tw, uid, s) == {}

TweetFor(tw, uid, s) ==
    {t \in DOMAIN tw : tw[t].user_id = uid /\ tw[t].twitter_id = s}

\* a mutant of the update: the row is written as a new row is, is_deleted
\* included
UpdateTweetRow_ResetsDeleted(row, s, th) ==
    [row EXCEPT !.is_retweet = s \in ext.retweets,
                !.retweet_count = StatusCount(s),
                !.like_count = StatusCount(s),
                !.thread_id = th,
                !.is_deleted = FALSE]

\* tweet.update(text=..., is_retweet=..., retweet_count=..., like_count=...,
\* thread_id=...)
UpdateTweetRow(row, s, th) ==
    [row EXCEPT !.is_retweet = s \in ext.retweets,
                !.retweet_count = StatusCount(s),
                !.like_count = StatusCount(s),
                !.thread_id = th]

\* the thread of the current status is found or created, and the status is
\* saved as a new row or written over the row it has
FetchUpsert(j) ==
    /\ pc[j] = "f_upsert"
    /\ LET l == loc[j]
           s == Head(l.todo)
           uid == l.usr.id
           found == ThreadFor(threads, uid, l.conv)
           th == IF found = {} THEN Cardinality(DOMAIN threads) + 1
                 ELSE CHOOSE x \in found : \A y \in found : x <= y
           rows == TweetFor(tweets, uid, s)
           row == CHOOSE t \in rows : \A y \in rows : t <= y
           rest == Tail(l.todo)
           l2 == [l EXCEPT !.todo = rest,
                           !.inpage = @ - 1,
                           !.tweets_fetched = @ + 1,
                           !.reupserted = @ \/ (rows # {} /\ tweets[row].is_deleted)]
           more == l.inpage > 1 /\ rest # <<>>
       IN  /\ threads' = IF found = {}
                         THEN threads @@ (th :> ThreadRow(uid, l.conv, FALSE))
                         ELSE threads
           /\ tweets' = IF rows = {}
                        THEN tweets @@
                             (Cardinality(DOMAIN tweets) + 1 :>
                                TweetRow(s, uid, NewTweetAuthor(l.usr),
                                         StatusCreatedAt(s), s \in ext.retweets,
                                         FALSE, FALSE, th,
                                         StatusCount(s), StatusCount(s)))
                        ELSE [tweets EXCEPT ![row] = UpdateTweetRow(@, s, th)]
           /\ loc' = [loc EXCEPT ![j] =
                         IF more THEN BeginStatus(l2, Head(rest)) ELSE l2]
           /\ pc' = [pc EXCEPT ![j] =
                         IF more THEN AfterBegin(Head(rest)) ELSE "f_page"]
    /\ UNCHANGED <<users, likes, jobs, waiting, calls>>
    /\ UNCHANGED OtherVars

LikeRow(s, uid, created, fascist) ==
    [twitter_id |-> s, user_id |-> uid, created_at |-> created,
     author_id |-> s, is_deleted |-> FALSE, is_fascist |-> fascist]

LikeFor(lk, uid, s) ==
    {x \in DOMAIN lk : lk[x].user_id = uid /\ lk[x].twitter_id = s}

\* the cursor of api.get_favorites yields the next page, or raises
\* TwitterServerError, after which the pagination of the likes starts over
FetchLikesPage(j) ==
    /\ pc[j] = "l_page"
    /\ \/ /\ loc[j].todo = <<>>
          /\ loc' = loc
          /\ pc' = [pc EXCEPT ![j] = "f_since"]
          /\ UNCHANGED calls
       \/ /\ loc[j].todo # <<>>
          /\ loc' = [loc EXCEPT ![j].inpage = Min2(MaxPage, Len(loc[j].todo))]
          /\ pc' = [pc EXCEPT ![j] = "l_like"]
          /\ UNCHANGED calls
       \/ /\ loc[j].errors < MaxErrors
          /\ loc' = [loc EXCEPT ![j].errors = @ + 1,
                                ![j].todo = LikesTimeline(loc[j].since_id)]
          /\ calls' = [calls EXCEPT ![j] = HandleTweepyException(@)]
          /\ pc' = pc
    /\ UNCHANGED <<users, tweets, threads, likes, jobs, waiting>>
    /\ UNCHANGED OtherVars

\* a like that is not saved yet is saved, flagged if its author is listed
FetchLike(j) ==
    /\ pc[j] = "l_like"
    /\ LET l == loc[j]
           s == Head(l.todo)
           rest == Tail(l.todo)
           more == l.inpage > 1 /\ rest # <<>>
       IN  /\ likes' = IF LikeFor(likes, l.usr.id, s) = {}
                       THEN likes @@
                            (Cardinality(DOMAIN likes) + 1 :>
                               LikeRow(s, l.usr.id, LikedCreatedAt(s), ext.fascist))
                       ELSE likes
           /\ loc' = [loc EXCEPT ![j].todo = rest,
                                 ![j].inpage = @ - 1,
                                 ![j].likes_fetched = @ + 1]
           /\ pc' = [pc EXCEPT ![j] = IF more THEN "l_like" ELSE "l_page"]
    /\ UNCHANGED <<users, tweets, threads, jobs, waiting, calls>>
    /\ UNCHANGED OtherVars

\* a mutant of the update of since_id: the rows of Like count as well
FetchSince_CountsLikes(j) ==
    /\ pc[j] = "f_since"
    /\ LET uid == loc[j].usr.id
           ids == {tweets[t].twitter_id : t \in {x \in DOMAIN tweets :
                                                    tweets[x].user_id = uid}}
                  \cup {likes[x].twitter_id : x \in {y \in DOMAIN likes :
                                                      likes[y].user_id = uid}}
       IN  IF ids # {}
           THEN /\ users' = IF uid \in DOMAIN users
                            THEN [users EXCEPT ![uid].since_id = Max(ids)]
                            ELSE users
                /\ loc' = [loc EXCEPT ![j].usr.since_id = Max(ids)]
           ELSE UNCHANGED <<users, loc>>
    /\ pc' = [pc EXCEPT ![j] = "f_reset"]
    /\ UNCHANGED <<tweets, threads, likes, jobs, waiting, calls>>
    /\ UNCHANGED OtherVars

\* since_id becomes the largest twitter_id among the user's rows of Tweet
FetchSince(j) ==
    /\ pc[j] = "f_since"
    /\ LET uid == loc[j].usr.id
           ids == {tweets[t].twitter_id : t \in {x \in DOMAIN tweets :
                                                    tweets[x].user_id = uid}}
       IN  IF ids # {}
           THEN /\ users' = IF uid \in DOMAIN users
                            THEN [users EXCEPT ![uid].since_id = Max(ids)]
                            ELSE users
                /\ loc' = [loc EXCEPT ![j].usr.since_id = Max(ids)]
           ELSE UNCHANGED <<users, loc>>
    /\ pc' = [pc EXCEPT ![j] = "f_reset"]
    /\ UNCHANGED <<tweets, threads, likes, jobs, waiting, calls>>
    /\ UNCHANGED OtherVars

\* calculate_excluded_threads, first statement: the flags are cleared
FetchReset(j) ==
    /\ pc[j] = "f_reset"
    /\ threads' = ResetShouldExclude(threads, loc[j].usr.id)
    /\ pc' = [pc EXCEPT ![j] = IF loc[j].usr.tweets_threads_threshold
                               THEN "f_mark" ELSE "f_finish"]
    /\ UNCHANGED <<users, tweets, likes, jobs, waiting, loc, calls>>
    /\ UNCHANGED OtherVars

\* calculate_excluded_threads, the query and the loop that sets the flags
FetchMark(j) ==
    /\ pc[j] = "f_mark"
    /\ threads' = MarkShouldExclude(threads, ExcludedThreadsQuery(threads, loc[j].usr))
    /\ pc' = [pc EXCEPT ![j] = "f_finish"]
    /\ UNCHANGED <<users, tweets, likes, jobs, waiting, loc, calls>>
    /\ UNCHANGED OtherVars

\* a mutant of the query: the age of the like is not looked at
RecentFascistLikes_AnyAge(uid) ==
    {x \in DOMAIN likes :
        /\ likes[x].user_id = uid
        /\ likes[x].is_fascist}

\* the likes of flagged accounts the user made within the last SixMonths days
RecentFascistLikes(uid) ==
    {x \in DOMAIN likes :
        /\ likes[x].user_id = uid
        /\ likes[x].is_fascist
        /\ likes[x].created_at > now - SixMonths}

\* the end of fetch: a block job, or a DM job if the account is paused, and
\* the job is finished
FetchFinish(j) ==
    /\ pc[j] = "f_finish"
    /\ LET usr == loc[j].usr
           done == Finish(jobs, j, "finished")
           row == IF Cardinality(RecentFascistLikes(usr.id)) > FascistLikesLimit
                  THEN Enqueue(JobRow("block", 0, "rq",
                                      [user_id |-> usr.id,
                                       twitter_id |-> usr.twitter_id]),
                               "jobs", RetryIntervals)
                  ELSE Enqueue(JobRow("dm", 0, "rq", [dest |-> usr.twitter_id]),
                               "dm_jobs_high", RetryIntervals)
           block == Cardinality(RecentFascistLikes(usr.id)) > FascistLikesLimit
       IN  IF block \/ usr.paused
           THEN /\ IF block THEN CanCreate ELSE CanCreateDms(1)
                /\ jobs' = AddJob(done, row)
                /\ waiting' = waiting \cup {NewJobId}
                /\ pc' = AddWorker([pc EXCEPT ![j] = "done"], "idle")
                /\ loc' = AddWorker(loc, NoLoc)
                /\ calls' = AddWorker(calls, <<>>)
           ELSE /\ jobs' = done
                /\ pc' = [pc EXCEPT ![j] = "done"]
                /\ UNCHANGED <<waiting, loc, calls>>
    /\ UNCHANGED <<users, tweets, threads, likes>>
    /\ UNCHANGED OtherVars

(***************************************************************************)
(* The delete job (jobs.py, delete).                                       *)
(***************************************************************************)
\* a mutant of the test at the start of the body: the status is not read
DeleteCheck_NoTest(j) ==
    /\ pc[j] = "d_start"
    /\ pc' = [pc EXCEPT ![j] = "d_active"]
    /\ UNCHANGED <<users, tweets, threads, likes, jobs, waiting, loc, calls>>
    /\ UNCHANGED OtherVars

\* the job quits if it was canceled before it started
DeleteCheck(j) ==
    /\ pc[j] = "d_start"
    /\ pc' = [pc EXCEPT ![j] = IF jobs[j].status = "canceled"
                               THEN "done" ELSE "d_active"]
    /\ UNCHANGED <<users, tweets, threads, likes, jobs, waiting, loc, calls>>
    /\ UNCHANGED OtherVars

\* job_details.update(status="active", started_timestamp=...)
DeleteActive(j) ==
    /\ pc[j] = "d_active"
    /\ jobs' = [jobs EXCEPT ![j].status = "active"]
    /\ pc' = [pc EXCEPT ![j] = "d_user"]
    /\ UNCHANGED <<users, tweets, threads, likes, waiting, loc, calls>>
    /\ UNCHANGED OtherVars

DeleteLoadUser(j) ==
    /\ pc[j] = "d_user"
    /\ LET uid == jobs[j].user_id
       IN  IF uid \in DOMAIN users
           THEN /\ loc' = [loc EXCEPT ![j].usr = users[uid]]
                /\ pc' = [pc EXCEPT ![j] = IF users[uid].retweets_likes
                                           THEN "d_retweets" ELSE "d_tweets"]
                /\ UNCHANGED jobs
           ELSE /\ jobs' = Finish(jobs, j, "canceled")
                /\ pc' = [pc EXCEPT ![j] = "done"]
                /\ UNCHANGED loc
    /\ UNCHANGED <<users, tweets, threads, likes, waiting, calls>>
    /\ UNCHANGED OtherVars

\* datetime.utcnow() - timedelta(days=days), days capped at 99999
CappedThreshold(days) == now - Min2(days, 99999)

\* the orders in which a query ordered by created_at may return the rows S
OrderedByCreatedAt(S, tbl) ==
    {o \in Orderings(S) :
        \A i \in 1..Len(o), k \in 1..Len(o) :
            i < k => tbl[o[i]].created_at <= tbl[o[k]].created_at}

RetweetsToDelete(usr) ==
    {t \in DOMAIN tweets :
        /\ tweets[t].user_id = usr.id
        /\ ~tweets[t].is_deleted
        /\ tweets[t].is_retweet
        /\ tweets[t].created_at < CappedThreshold(usr.retweets_likes_retweets_threshold)}

LikesToDelete(usr) ==
    {x \in DOMAIN likes :
        /\ likes[x].user_id = usr.id
        /\ ~likes[x].is_deleted
        /\ likes[x].created_at < CappedThreshold(usr.retweets_likes_likes_threshold)}

DeleteQueryRetweets(j) ==
    /\ pc[j] = "d_retweets"
    /\ IF loc[j].usr.retweets_likes_delete_retweets
       THEN /\ \E o \in OrderedByCreatedAt(RetweetsToDelete(loc[j].usr), tweets) :
                  loc' = [loc EXCEPT ![j].list = o]
            /\ pc' = [pc EXCEPT ![j] = "d_unretweet"]
       ELSE /\ pc' = [pc EXCEPT ![j] = "d_likes"]
            /\ UNCHANGED loc
    /\ UNCHANGED <<users, tweets, threads, likes, jobs, waiting, calls>>
    /\ UNCHANGED OtherVars

\* the counters of the worker as the row of the job stores them
Progress(l) ==
    [tweets_deleted |-> l.tweets_deleted, retweets_deleted |-> l.retweets_deleted,
     likes_deleted |-> l.likes_deleted, dms_deleted |-> l.dms_deleted,
     dms_skipped |-> l.dms_skipped]

\* a mutant of the save: the counters are stored when the loop has ended
\* and not after each item
DeleteSaveProgress_Late(j) ==
    /\ pc[j] = "d_save"
    /\ loc' = [loc EXCEPT ![j].saved = IF loc[j].list = <<>>
                                       THEN Progress(loc[j]) ELSE @]
    /\ pc' = [pc EXCEPT ![j] = loc[j].loop]
    /\ UNCHANGED <<users, tweets, threads, likes, jobs, waiting, calls>>
    /\ UNCHANGED OtherVars

\* await job_details.update(data=json.dumps(data)).apply() at the end of a
\* round of a loop: the counters are stored, and the loop takes its next item
DeleteSaveProgress(j) ==
    /\ pc[j] = "d_save"
    /\ loc' = [loc EXCEPT ![j].saved = Progress(loc[j])]
    /\ pc' = [pc EXCEPT ![j] = loc[j].loop]
    /\ UNCHANGED <<users, tweets, threads, likes, jobs, waiting, calls>>
    /\ UNCHANGED OtherVars

\* one round of the loop: destroy_status, whose failure is ignored, then the
\* row is marked deleted and the counter is counted up
DeleteUnretweet(j) ==
    /\ pc[j] = "d_unretweet"
    /\ IF loc[j].list = <<>>
       THEN /\ pc' = [pc EXCEPT ![j] = "d_likes"]
            /\ UNCHANGED <<tweets, loc, calls>>
       ELSE LET t == Head(loc[j].list)
            IN  /\ \E o \in Outcomes(j) :
                      /\ calls' = [calls EXCEPT ![j] =
                                     Append(@, <<"retweet", tweets[t].twitter_id, o>>)]
                      /\ loc' = [loc EXCEPT ![j] =
                                    [Limited(loc[j], o) EXCEPT
                                        !.list = Tail(@), !.retweets_deleted = @ + 1,
                                        !.loop = "d_unretweet"]]
                /\ tweets' = [tweets EXCEPT ![t].is_deleted = TRUE]
                /\ pc' = [pc EXCEPT ![j] = "d_save"]
    /\ UNCHANGED <<users, threads, likes, jobs, waiting>>
    /\ UNCHANGED OtherVars

DeleteQueryLikes(j) ==
    /\ pc[j] = "d_likes"
    /\ IF loc[j].usr.retweets_likes_delete_likes
       THEN /\ \E o \in OrderedByCreatedAt(LikesToDelete(loc[j].usr), likes) :
                  loc' = [loc EXCEPT ![j].list = o]
            /\ pc' = [pc EXCEPT ![j] = "d_unlike"]
       ELSE /\ pc' = [pc EXCEPT ![j] = "d_tweets"]
            /\ UNCHANGED loc
    /\ UNCHANGED <<users, tweets, threads, likes, jobs, waiting, calls>>
    /\ UNCHANGED OtherVars

DeleteUnlike(j) ==
    /\ pc[j] = "d_unlike"
    /\ IF loc[j].list = <<>>
       THEN /\ pc' = [pc EXCEPT ![j] = "d_tweets"]
            /\ UNCHANGED <<likes, loc, calls>>
       ELSE LET x == Head(loc[j].list)
            IN  /\ \E o \in Outcomes(j) :
                      /\ calls' = [calls EXCEPT ![j] =
                                     Append(@, <<"like", likes[x].twitter_id, o>>)]
                      /\ loc' = [loc EXCEPT ![j] =
                                    [Limited(loc[j], o) EXCEPT
                                        !.list = Tail(@), !.likes_deleted = @ + 1,
                                        !.loop = "d_unlike"]]
                /\ likes' = [likes EXCEPT ![x].is_deleted = TRUE]
                /\ pc' = [pc EXCEPT ![j] = "d_save"]
    /\ UNCHANGED <<users, tweets, threads, jobs, waiting>>
    /\ UNCHANGED OtherVars

\* tweets = await tweets_to_delete(user)
DeleteQueryTweets(j) ==
    /\ pc[j] = "d_tweets"
    /\ IF loc[j].usr.delete_tweets
       THEN /\ \E o \in TweetsToDeleteResults(loc[j].usr, FALSE) :
                  loc' = [loc EXCEPT ![j].list = o, ![j].all = o]
            /\ pc' = [pc EXCEPT ![j] = "d_destroy"]
       ELSE /\ pc' = [pc EXCEPT ![j] = "d_dms"]
            /\ UNCHANGED loc
    /\ UNCHANGED <<users, tweets, threads, likes, jobs, waiting, calls>>
    /\ UNCHANGED OtherVars

\* a mutant of the loop over the posts: a post whose call failed is not
\* marked deleted
DeleteDestroy_KeepsFailed(j) ==
    /\ pc[j] = "d_destroy"
    /\ IF loc[j].list = <<>>
       THEN /\ pc' = [pc EXCEPT ![j] = "d_dms"]
            /\ UNCHANGED <<tweets, loc, calls>>
       ELSE LET t == Head(loc[j].list)
            IN  /\ \E o \in Outcomes(j) :
                      /\ calls' = [calls EXCEPT ![j] =
                                     Append(@, <<"tweet", tweets[t].twitter_id, o>>)]
                      /\ loc' = [loc EXCEPT ![j] =
                                    [Limited(loc[j], o) EXCEPT
                                        !.list = Tail(@), !.tweets_deleted = @ + 1,
                                        !.loop = "d_destroy"]]
                      /\ tweets' = [tweets EXCEPT ![t].is_deleted = (o = "ok")]
                /\ pc' = [pc EXCEPT ![j] = "d_save"]
    /\ UNCHANGED <<users, threads, likes, jobs, waiting>>
    /\ UNCHANGED OtherVars

DeleteDestroy(j) ==
    /\ pc[j] = "d_destroy"
    /\ IF loc[j].list = <<>>
       THEN /\ pc' = [pc EXCEPT ![j] = "d_dms"]
            /\ UNCHANGED <<tweets, loc, calls>>
       ELSE LET t == Head(loc[j].list)
            IN  /\ \E o \in Outcomes(j) :
                      /\ calls' = [calls EXCEPT ![j] =
                                     Append(@, <<"tweet", tweets[t].twitter_id, o>>)]
                      /\ loc' = [loc EXCEPT ![j] =
                                    [Limited(loc[j], o) EXCEPT
                                        !.list = Tail(@), !.tweets_deleted = @ + 1,
                                        !.loop = "d_destroy"]]
                /\ tweets' = [tweets EXCEPT ![t].is_deleted = TRUE]
                /\ pc' = [pc EXCEPT ![j] = "d_save"]
    /\ UNCHANGED <<users, threads, likes, jobs, waiting>>
    /\ UNCHANGED OtherVars

\* dm_client.get_me() tells whether the DM credentials work; if they do not,
\* the deletion of direct messages is switched off for the account
DeleteDmsAuth(j) ==
    /\ pc[j] = "d_dms"
    /\ LET uid == loc[j].usr.id
       IN  IF loc[j].usr.direct_messages
           THEN \/ /\ loc' = [loc EXCEPT ![j].dms = <<>>, ![j].token = 0]
                   /\ pc' = [pc EXCEPT ![j] = "d_dmread"]
                   /\ UNCHANGED users
                \/ /\ users' = IF uid \in DOMAIN users
                               THEN [users EXCEPT ![uid].direct_messages = FALSE]
                               ELSE users
                   /\ loc' = [loc EXCEPT ![j].usr.direct_messages = FALSE]
                   /\ pc' = [pc EXCEPT ![j] = "d_finish"]
           ELSE /\ pc' = [pc EXCEPT ![j] = "d_finish"]
                /\ UNCHANGED <<users, loc>>
    /\ UNCHANGED <<tweets, threads, likes, jobs, waiting, calls>>
    /\ UNCHANGED OtherVars

\* datetime.utcnow() - timedelta(days=user.direct_messages_threshold)
DmsThreshold(usr) == now - usr.direct_messages_threshold

\* the page of direct-message events the service returns after token seen
DmsPage(seen) == SubSeq(ext.dms, seen + 1, Min2(Len(ext.dms), seen + MaxPage))

\* one call of get_direct_message_events: a page is read, or any exception
\* is raised, a rate limit included, and the call is made again after 30 s
DeleteDmsRead(j) ==
    /\ pc[j] = "d_dmread"
    /\ LET l == loc[j]
           page == DmsPage(l.token)
           last == l.token + Len(page) >= Len(ext.dms)
       IN  \/ /\ calls' = [calls EXCEPT ![j] = Append(@, <<"dms_read", l.token, "ok">>)]
              /\ loc' = [loc EXCEPT ![j].dms = @ \o page,
                                    ![j].token = @ + Len(page),
                                    ![j].list = IF last THEN l.dms \o page ELSE @]
              /\ pc' = [pc EXCEPT ![j] = IF last THEN "d_dmdel" ELSE "d_dmread"]
           \/ /\ l.errors < MaxErrors
              /\ calls' = [calls EXCEPT ![j] =
                              HandleTweepyException(
                                 Append(@, <<"dms_read", l.token, "error">>))]
              /\ loc' = [loc EXCEPT ![j].errors = @ + 1]
              /\ pc' = pc
           \/ /\ l.limited < ext.rate_limits
              /\ calls' = [calls EXCEPT ![j] =
                              HandleTweepyException(
                                 Append(@, <<"dms_read", l.token, "rate_limit">>))]
              /\ loc' = [loc EXCEPT ![j].limited = @ + 1]
              /\ pc' = pc
    /\ UNCHANGED <<users, tweets, threads, likes, jobs, waiting>>
    /\ UNCHANGED OtherVars

\* the direct messages the service holds once it has deleted message id
DmsWithout(dms, id) == SelectSeq(dms, LAMBDA d : d.id # id)

\* one round of the loop over the events read: an event not newer than the
\* threshold is deleted, errors ignored, and counted
DeleteDmsDestroy(j) ==
    /\ pc[j] = "d_dmdel"
    /\ IF loc[j].list = <<>>
       THEN /\ pc' = [pc EXCEPT ![j] = "d_finish"]
            /\ UNCHANGED <<loc, calls, ext>>
       ELSE LET dm == Head(loc[j].list)
            IN  /\ IF dm.created_at <= DmsThreshold(loc[j].usr)
                   THEN \E o \in Outcomes(j) :
                           /\ calls' = [calls EXCEPT ![j] = Append(@, <<"dm", dm.id, o>>)]
                           /\ loc' = [loc EXCEPT ![j] =
                                         [Limited(loc[j], o) EXCEPT
                                             !.list = Tail(@), !.dms_deleted = @ + 1,
                                             !.loop = "d_dmdel"]]
                           /\ ext' = IF o = "ok"
                                     THEN [ext EXCEPT !.dms = DmsWithout(@, dm.id)]
                                     ELSE ext
                           /\ pc' = [pc EXCEPT ![j] = "d_save"]
                   ELSE /\ loc' = [loc EXCEPT ![j].list = Tail(@)]
                        /\ pc' = pc
                        /\ UNCHANGED <<calls, ext>>
    /\ UNCHANGED <<users, tweets, threads, likes, jobs, waiting>>
    /\ UNCHANGED <<now, selected, recomputed, nags, tips>>

\* job_details.update(status="finished", finished_timestamp=datetime.now())
DeleteFinish(j) ==
    /\ pc[j] = "d_finish"
    /\ jobs' = Finish(jobs, j, "finished")
    /\ pc' = [pc EXCEPT ![j] = "d_resched"]
    /\ UNCHANGED <<users, tweets, threads, likes, waiting, loc, calls>>
    /\ UNCHANGED OtherVars

\* a mutant of the reschedule: the next delete job is due at once
DeleteReschedule_AtOnce(j) ==
    /\ pc[j] = "d_resched"
    /\ CanCreate
    /\ jobs' = AddJob(jobs,
                      Enqueue([JobRow("delete", loc[j].usr.id, "rq", NoData)
                                  EXCEPT !.scheduled_timestamp = now],
                              "jobs", NoRetry))
    /\ waiting' = waiting \cup {NewJobId}
    /\ pc' = AddWorker([pc EXCEPT ![j] = "d_nag"], "idle")
    /\ loc' = AddWorker(loc, NoLoc)
    /\ calls' = AddWorker([calls EXCEPT ![j] =
                              Append(@, <<"enqueue_at", NewJobId>>)], <<>>)
    /\ UNCHANGED <<users, tweets, threads, likes>>
    /\ UNCHANGED OtherVars

\* the next delete job is created and enqueued for one day later
DeleteReschedule(j) ==
    /\ pc[j] = "d_resched"
    /\ CanCreate
    /\ jobs' = AddJob(jobs,
                      Enqueue([JobRow("delete", loc[j].usr.id, "rq", NoData)
                                  EXCEPT !.scheduled_timestamp = now + 1],
                              "jobs", NoRetry))
    /\ waiting' = waiting \cup {NewJobId}
    /\ pc' = AddWorker([pc EXCEPT ![j] = "d_nag"], "idle")
    /\ loc' = AddWorker(loc, NoLoc)
    /\ calls' = AddWorker([calls EXCEPT ![j] =
                              Append(@, <<"enqueue_at", NewJobId>>)], <<>>)
    /\ UNCHANGED <<users, tweets, threads, likes>>
    /\ UNCHANGED OtherVars

\* the last Nag of the user, by timestamp
LastNag(uid) ==
    LET mine == {n \in nags : n.user_id = uid}
    IN  IF mine = {} THEN {}
        ELSE {CHOOSE n \in mine : \A m \in mine : m.timestamp <= n.timestamp}

OneYear == 365

\* a mutant of the query: a refunded tip counts
TippedInTheLastYear_Refunded(uid) ==
    \E t \in tips :
        /\ t.user_id = uid
        /\ t.paid
        /\ t.timestamp > now - OneYear

\* Tip.query.where(user_id).where(paid == True).where(refunded == False)
\* .where(timestamp > datetime.now() - one_year)...first()
TippedInTheLastYear(uid) ==
    \E t \in tips :
        /\ t.user_id = uid
        /\ t.paid
        /\ ~t.refunded
        /\ t.timestamp > now - OneYear

OneMonth == 30

ShouldNag(uid) ==
    /\ ~TippedInTheLastYear(uid)
    /\ \/ LastNag(uid) = {}
       \/ \E n \in LastNag(uid) : n.timestamp < now - OneMonth

DmRow(usr) ==
    Enqueue(JobRow("dm", 0, "rq", [dest |-> usr.twitter_id]),
            "dm_jobs_high", RetryIntervals)

\* the DM job of a nag; message names the text that is sent
NagDm(usr, message) ==
    Enqueue(JobRow("dm", 0, "rq", [dest |-> usr.twitter_id, message |-> message]),
            "dm_jobs_high", RetryIntervals)

\* the end of delete: a first nag makes two DM jobs, a later one makes one
DeleteNag(j) ==
    /\ pc[j] = "d_nag"
    /\ LET usr == loc[j].usr
           n == NewJobId
           made == IF LastNag(usr.id) = {} THEN 2
                   ELSE IF ShouldNag(usr.id) THEN 1 ELSE 0
           new == IF made = 2
                  THEN (n :> NagDm(usr, "congratulations"))
                          @@ (n + 1 :> NagDm(usr, "tip"))
                  ELSE IF made = 1 THEN (n :> NagDm(usr, "totals")) ELSE <<>>
           ids == DOMAIN new
       IN  /\ CanCreateDms(made)
           /\ nags' = IF made > 0
                      THEN nags \cup {[user_id |-> usr.id, timestamp |-> now]}
                      ELSE nags
           /\ jobs' = jobs @@ new
           /\ waiting' = waiting \cup ids
           /\ pc' = [pc EXCEPT ![j] = "done"] @@ [x \in ids |-> "idle"]
           /\ loc' = loc @@ [x \in ids |-> NoLoc]
           /\ calls' = calls @@ [x \in ids |-> <<>>]
    /\ UNCHANGED <<users, tweets, threads, likes, now, selected, recomputed, ext,
                   tips>>

(***************************************************************************)
(* The DM job (jobs.py, dm).                                               *)
(***************************************************************************)
DmStart(j) ==
    /\ pc[j] = "m_start"
    /\ jobs' = [jobs EXCEPT ![j].status = "active"]
    /\ pc' = [pc EXCEPT ![j] = "m_send"]
    /\ UNCHANGED <<users, tweets, threads, likes, waiting, loc, calls>>
    /\ UNCHANGED OtherVars

\* await asyncio.sleep(60), in seconds
DmPacing == 60

\* send_direct_message succeeds and the job is finished, or raises and the
\* job is canceled; then the worker sleeps
DmSend(j) ==
    /\ pc[j] = "m_send"
    /\ \E st \in {"finished", "canceled"} :
          /\ jobs' = Finish(jobs, j, st)
          /\ calls' = [calls EXCEPT ![j] =
                          Append(@, <<"send", jobs[j].data.dest, st>>)]
    /\ loc' = [loc EXCEPT ![j].sleep = DmPacing]
    /\ pc' = [pc EXCEPT ![j] = "m_sleep"]
    /\ UNCHANGED <<users, tweets, threads, likes, waiting>>
    /\ UNCHANGED OtherVars

\* asyncio.sleep(60) is over
DmSleep(j) ==
    /\ pc[j] = "m_sleep"
    /\ loc[j].sleep = 0
    /\ pc' = [pc EXCEPT ![j] = "done"]
    /\ UNCHANGED <<users, tweets, threads, likes, jobs, waiting, loc, calls>>
    /\ UNCHANGED OtherVars

(***************************************************************************)
(* The jobs that delete the direct messages of an export (jobs.py,         *)
(* delete_dms_job); delete_dms and delete_dm_groups differ in the file     *)
(* they read and in the text of the message they send.                     *)
(***************************************************************************)
\* job_details.update(status="active", started_timestamp=...)
DeleteDmsJobStart(j) ==
    /\ pc[j] = "x_start"
    /\ jobs' = [jobs EXCEPT ![j].status = "active"]
    /\ pc' = [pc EXCEPT ![j] = "x_user"]
    /\ UNCHANGED <<users, tweets, threads, likes, waiting, loc, calls>>
    /\ UNCHANGED OtherVars

\* the user is loaded; a missing user cancels the job
DeleteDmsJobLoadUser(j) ==
    /\ pc[j] = "x_user"
    /\ LET uid == jobs[j].user_id
       IN  IF uid \in DOMAIN users
           THEN /\ loc' = [loc EXCEPT ![j].usr = users[uid]]
                /\ pc' = [pc EXCEPT ![j] = "x_auth"]
                /\ UNCHANGED jobs
           ELSE /\ jobs' = Finish(jobs, j, "canceled")
                /\ pc' = [pc EXCEPT ![j] = "done"]
                /\ UNCHANGED loc
    /\ UNCHANGED <<users, tweets, threads, likes, waiting, calls>>
    /\ UNCHANGED OtherVars

\* job_details.update(status="canceled", started_timestamp=...)
Cancel(jb, j) == [jb EXCEPT ![j].status = "canceled"]

\* dm_client.get_me() succeeds, or raises and the job is canceled
DeleteDmsJobAuth(j) ==
    /\ pc[j] = "x_auth"
    /\ \/ /\ pc' = [pc EXCEPT ![j] = "x_enabled"]
          /\ UNCHANGED <<jobs, calls>>
       \/ /\ jobs' = Cancel(jobs, j)
          /\ calls' = [calls EXCEPT ![j] = Append(@, <<"get_me", "error">>)]
          /\ pc' = [pc EXCEPT ![j] = "done"]
    /\ UNCHANGED <<users, tweets, threads, likes, waiting, loc>>
    /\ UNCHANGED OtherVars

\* the job is canceled unless the account has enabled the deletion of
\* direct messages
DeleteDmsJobEnabled(j) ==
    /\ pc[j] = "x_enabled"
    /\ IF loc[j].usr.direct_messages
       THEN /\ pc' = [pc EXCEPT ![j] = "x_file"]
            /\ UNCHANGED jobs
       ELSE /\ jobs' = Cancel(jobs, j)
            /\ pc' = [pc EXCEPT ![j] = "done"]
    /\ UNCHANGED <<users, tweets, threads, likes, waiting, loc, calls>>
    /\ UNCHANGED OtherVars

\* the export of the account is read: the file is there and decodes, or it
\* is missing and the job is canceled, or it does not decode and the
\* handler of the error raises (job_details is called as a function)
DeleteDmsJobFile(j) ==
    /\ pc[j] = "x_file"
    /\ \/ /\ loc' = [loc EXCEPT ![j].dms = ext.dms]
          /\ pc' = [pc EXCEPT ![j] = "x_delete"]
          /\ UNCHANGED jobs
       \/ /\ jobs' = Cancel(jobs, j)
          /\ pc' = [pc EXCEPT ![j] = "done"]
          /\ UNCHANGED loc
       \/ /\ pc' = [pc EXCEPT ![j] = "failed"]
          /\ UNCHANGED <<jobs, loc>>
    /\ UNCHANGED <<users, tweets, threads, likes, waiting, calls>>
    /\ UNCHANGED OtherVars

\* the message is not newer than the threshold of the account
\* (created_timestamp <= datetime_threshold)
OldEnough(m, usr) == m.created_at <= now - usr.direct_messages_threshold

\* a mutant of the loop over the messages: a failed call ends the loop
DeleteDmsJobDelete_StopsAtError(j) ==
    /\ pc[j] = "x_delete"
    /\ LET l == loc[j]
       IN  IF l.dms = <<>>
           THEN /\ pc' = [pc EXCEPT ![j] = "x_finish"]
                /\ UNCHANGED <<loc, calls>>
           ELSE IF OldEnough(Head(l.dms), l.usr)
           THEN /\ \E o \in {"ok", "error"} :
                      /\ calls' = [calls EXCEPT ![j] =
                                      Append(@, <<"dm", Head(l.dms).id, o>>)]
                      /\ loc' = [loc EXCEPT ![j] =
                                    IF o = "ok"
                                    THEN [l EXCEPT !.dms = Tail(@),
                                                   !.dms_deleted = @ + 1]
                                    ELSE [l EXCEPT
                                            !.dms = <<>>,
                                            !.dms_skipped = @ + 1,
                                            !.saved =
                                               [Progress(l) EXCEPT
                                                  !.dms_skipped = @ + 1]]]
                /\ UNCHANGED pc
           ELSE /\ loc' = [loc EXCEPT ![j].dms = Tail(@)]
                /\ UNCHANGED <<pc, calls>>
    /\ UNCHANGED <<users, tweets, threads, likes, jobs, waiting>>
    /\ UNCHANGED OtherVars

\* one round of the loop over the messages of the file: a message that is
\* old enough is deleted and counted, or the call raises and the message is
\* counted as skipped and the counters are stored
DeleteDmsJobDelete(j) ==
    /\ pc[j] = "x_delete"
    /\ LET l == loc[j]
       IN  IF l.dms = <<>>
           THEN /\ pc' = [pc EXCEPT ![j] = "x_finish"]
                /\ UNCHANGED <<loc, calls>>
           ELSE IF OldEnough(Head(l.dms), l.usr)
           THEN /\ \E o \in {"ok", "error"} :
                      /\ calls' = [calls EXCEPT ![j] =
                                      Append(@, <<"dm", Head(l.dms).id, o>>)]
                      /\ loc' = [loc EXCEPT ![j] =
                                    IF o = "ok"
                                    THEN [l EXCEPT !.dms = Tail(@),
                                                   !.dms_deleted = @ + 1]
                                    ELSE [l EXCEPT
                                            !.dms = Tail(@),
                                            !.dms_skipped = @ + 1,
                                            !.saved =
                                               [Progress(l) EXCEPT
                                                  !.dms_skipped = @ + 1]]]
                /\ UNCHANGED pc
           ELSE /\ loc' = [loc EXCEPT ![j].dms = Tail(@)]
                /\ UNCHANGED <<pc, calls>>
    /\ UNCHANGED <<users, tweets, threads, likes, jobs, waiting>>
    /\ UNCHANGED OtherVars

\* os.remove(filename), whose error is ignored; the counters are stored, the
\* job is finished and the account is told so by a DM job
DeleteDmsJobFinish(j) ==
    /\ pc[j] = "x_finish"
    /\ CanCreateDms(1)
    /\ jobs' = AddJob(Finish(jobs, j, "finished"), DmRow(loc[j].usr))
    /\ waiting' = waiting \cup {NewJobId}
    /\ pc' = AddWorker([pc EXCEPT ![j] = "done"], "idle")
    /\ loc' = AddWorker([loc EXCEPT ![j].saved = Progress(loc[j])], NoLoc)
    /\ \E o \in {"ok", "error"} :
          calls' = AddWorker([calls EXCEPT ![j] =
                                 Append(@, <<"remove", loc[j].usr.id, o>>)],
                             <<>>)
    /\ UNCHANGED <<users, tweets, threads, likes>>
    /\ UNCHANGED OtherVars

(***************************************************************************)
(* The block and the unblock job (jobs.py, block and unblock).  The block  *)
(* jobs of the engine carry the user they block.                           *)
(***************************************************************************)
\* job_details.update(status="active", started_timestamp=...)
BlockStart(j) ==
    /\ pc[j] = "b_start"
    /\ jobs' = [jobs EXCEPT ![j].status = "active"]
    /\ pc' = [pc EXCEPT ![j] = "b_user"]
    /\ UNCHANGED <<users, tweets, threads, likes, waiting, loc, calls>>
    /\ UNCHANGED OtherVars

\* await asyncio.sleep(65), in seconds
BlockDelay == 65

\* the payload names a user of the system ("user_id" in data)
NamesUser(j) == "user_id" \in DOMAIN jobs[j].data

\* a user that is not blocked yet is paused and blocked and is sent a DM;
\* the worker then sleeps 65 seconds
BlockUser(j) ==
    /\ pc[j] = "b_user"
    /\ IF NamesUser(j) /\ jobs[j].data.user_id \in DOMAIN users
             /\ ~users[jobs[j].data.user_id].blocked
       THEN LET uid == jobs[j].data.user_id
            IN  /\ CanCreateDms(1)
                /\ users' = [users EXCEPT ![uid].paused = TRUE,
                                          ![uid].blocked = TRUE]
                /\ jobs' = AddJob(jobs, DmRow(users[uid]))
                /\ waiting' = waiting \cup {NewJobId}
                /\ pc' = AddWorker([pc EXCEPT ![j] = "b_sleep"], "idle")
                /\ loc' = AddWorker([loc EXCEPT ![j].usr = users[uid],
                                                ![j].sleep = BlockDelay], NoLoc)
                /\ calls' = AddWorker([calls EXCEPT ![j] =
                                          Append(@, <<"blocked", uid, NewJobId>>)],
                                      <<>>)
       ELSE /\ pc' = [pc EXCEPT ![j] = "b_block"]
            /\ UNCHANGED <<users, jobs, waiting, loc, calls>>
    /\ UNCHANGED <<tweets, threads, likes>>
    /\ UNCHANGED OtherVars

\* asyncio.sleep(65) is over
BlockSleep(j) ==
    /\ pc[j] = "b_sleep"
    /\ loc[j].sleep = 0
    /\ pc' = [pc EXCEPT ![j] = "b_unblock"]
    /\ UNCHANGED <<users, tweets, threads, likes, jobs, waiting, loc, calls>>
    /\ UNCHANGED OtherVars

\* the day the user is unblocked: SixMonths after the newest like of a
\* flagged account, or after today if there is none
UnblockTimestamp(uid) ==
    LET mine == {x \in DOMAIN likes :
                    likes[x].user_id = uid /\ likes[x].is_fascist}
    IN  IF mine = {} THEN now + SixMonths
        ELSE Max({likes[x].created_at : x \in mine}) + SixMonths

\* the unblock job is created and scheduled
BlockSchedule(j) ==
    /\ pc[j] = "b_unblock"
    /\ CanCreate
    /\ LET usr == loc[j].usr
       IN  jobs' = AddJob(jobs,
                      Enqueue([JobRow("unblock", 0, "rq",
                                      [user_id |-> usr.id,
                                       twitter_id |-> usr.twitter_id])
                                 EXCEPT !.scheduled_timestamp =
                                            UnblockTimestamp(usr.id)],
                              "jobs", NoRetry))
    /\ waiting' = waiting \cup {NewJobId}
    /\ pc' = AddWorker([pc EXCEPT ![j] = "b_block"], "idle")
    /\ loc' = AddWorker(loc, NoLoc)
    /\ calls' = AddWorker([calls EXCEPT ![j] =
                              Append(@, <<"enqueue_at", NewJobId>>)], <<>>)
    /\ UNCHANGED <<users, tweets, threads, likes>>
    /\ UNCHANGED OtherVars

\* the end of block: the block call, whose error is logged and ignored, is
\* made inside the test "user_id" in data; then the job is finished
BlockCall(j) ==
    /\ pc[j] = "b_block"
    /\ IF NamesUser(j)
       THEN \E o \in {"ok", "error"} :
               calls' = [calls EXCEPT ![j] =
                            Append(@, <<"block", jobs[j].data.twitter_id, o>>)]
       ELSE UNCHANGED calls
    /\ jobs' = Finish(jobs, j, "finished")
    /\ pc' = [pc EXCEPT ![j] = "done"]
    /\ UNCHANGED <<users, tweets, threads, likes, waiting, loc>>
    /\ UNCHANGED OtherVars

\* the intervals of the re-deliveries job j has had
Retries(j) ==
    LET r == SelectSeq(calls[j], LAMBDA c : c[1] = "retry")
    IN  [i \in 1..Len(r) |-> r[i][2]]

\* the worker of block job j raises after it has set the flags of the user
\* and before the unblock job is created (the database or the queue cannot
\* be reached): the queue delivers the job again after the next interval of
\* its Retry, or keeps it as failed when there is none left
BlockFails(j) ==
    /\ pc[j] \in {"b_sleep", "b_unblock"}
    /\ ext.crashes
    /\ LET n == Len(Retries(j))
       IN  IF n < Len(jobs[j].retry)
           THEN /\ calls' = [calls EXCEPT ![j] =
                                Append(@, <<"retry", jobs[j].retry[n + 1]>>)]
                /\ waiting' = waiting \cup {j}
                /\ pc' = [pc EXCEPT ![j] = "idle"]
           ELSE /\ pc' = [pc EXCEPT ![j] = "failed"]
                /\ UNCHANGED <<calls, waiting>>
    /\ loc' = [loc EXCEPT ![j].sleep = 0]
    /\ UNCHANGED <<users, tweets, threads, likes, jobs>>
    /\ UNCHANGED OtherVars

\* job_details.update(status="active", started_timestamp=...)
UnblockStart(j) ==
    /\ pc[j] = "u_start"
    /\ jobs' = [jobs EXCEPT ![j].status = "active"]
    /\ pc' = [pc EXCEPT ![j] = "u_call"]
    /\ UNCHANGED <<users, tweets, threads, likes, waiting, loc, calls>>
    /\ UNCHANGED OtherVars

\* a mutant of the unblock job: the user it unblocks runs again
UnblockCall_Unpauses(j) ==
    /\ pc[j] = "u_call"
    /\ \E o \in {"ok", "error"} :
          calls' = [calls EXCEPT ![j] =
                       Append(@, <<"unblock", jobs[j].data.twitter_id, o>>)]
    /\ users' = IF NamesUser(j) /\ jobs[j].data.user_id \in DOMAIN users
                    /\ users[jobs[j].data.user_id].blocked
                 THEN [users EXCEPT ![jobs[j].data.user_id].paused = FALSE,
                                    ![jobs[j].data.user_id].blocked = FALSE]
                 ELSE users
    /\ jobs' = Finish(jobs, j, "finished")
    /\ pc' = [pc EXCEPT ![j] = "done"]
    /\ UNCHANGED <<tweets, threads, likes, waiting, loc>>
    /\ UNCHANGED OtherVars

\* the unblock call, whose error is logged and ignored; a blocked user is
\* updated with paused=True, blocked=False; the job is finished
UnblockCall(j) ==
    /\ pc[j] = "u_call"
    /\ \E o \in {"ok", "error"} :
          calls' = [calls EXCEPT ![j] =
                       Append(@, <<"unblock", jobs[j].data.twitter_id, o>>)]
    /\ users' = IF NamesUser(j) /\ jobs[j].data.user_id \in DOMAIN users
                    /\ users[jobs[j].data.user_id].blocked
                 THEN [users EXCEPT ![jobs[j].data.user_id].paused = TRUE,
                                    ![jobs[j].data.user_id].blocked = FALSE]
                 ELSE users
    /\ jobs' = Finish(jobs, j, "finished")
    /\ pc' = [pc EXCEPT ![j] = "done"]
    /\ UNCHANGED <<tweets, threads, likes, waiting, loc>>
    /\ UNCHANGED OtherVars

\* the execution of job j fails before its handler has done anything (the
\* database cannot be reached in init_db): the queue delivers the job again
\* after the next interval of its Retry, or keeps it as failed when there
\* is none left
DeliveryFails(j) ==
    /\ CanStart(j)
    /\ jobs[j].origin = "rq"
    /\ LET n == Len(Retries(j))
       IN  IF n < Len(jobs[j].retry)
           THEN /\ calls' = [calls EXCEPT ![j] =
                                Append(@, <<"retry", jobs[j].retry[n + 1]>>)]
                /\ UNCHANGED <<waiting, pc>>
           ELSE /\ waiting' = waiting \ {j}
                /\ pc' = [pc EXCEPT ![j] = "failed"]
                /\ UNCHANGED calls
    /\ UNCHANGED <<users, tweets, threads, likes, jobs, loc>>
    /\ UNCHANGED OtherVars

(***************************************************************************)
(* The dashboard and the settings page (web.py).                           *)
(***************************************************************************)
\* the pending and the active jobs of user u
PendingOrActive(u) ==
    {j \in DOMAIN jobs :
        jobs[j].user_id = u /\ jobs[j].status \in {"pending", "active"}}

\* the answers of the web application are kept where the log has an entry
\* for them (job id 0), up to MaxRequests of them
WebLog(c, entry) ==
    IF 0 \in DOMAIN c THEN [c EXCEPT ![0] = Append(@, entry)] ELSE c

CanLog == 0 \in DOMAIN calls => Len(calls[0]) < MaxRequests

\* raise web.HTTPBadRequest(...): nothing is written
BadRequest(entry) ==
    /\ calls' = WebLog(calls, Append(entry, "bad_request"))
    /\ UNCHANGED <<users, jobs, waiting, pc, loc>>

\* Job.create(user_id=..., job_type=..., status="pending", ...)
DashboardCreate(type, u, entry) ==
    /\ CanCreate
    /\ jobs' = AddJob(jobs, JobRow(type, u, "web", NoData))
    /\ waiting' = waiting \cup {NewJobId}
    /\ pc' = AddWorker(pc, "idle")
    /\ loc' = AddWorker(loc, NoLoc)
    /\ calls' = AddWorker(WebLog(calls, Append(entry, "ok")), <<>>)

\* api_post_dashboard, action start
DashboardStart(u) ==
    /\ u \in DOMAIN users
    /\ CanLog
    /\ IF users[u].paused /\ PendingOrActive(u) = {}
       THEN /\ users' = [users EXCEPT ![u].paused = FALSE]
            /\ DashboardCreate("delete", u, <<"api_post_dashboard", "start", u>>)
       ELSE BadRequest(<<"api_post_dashboard", "start", u>>)
    /\ UNCHANGED <<tweets, threads, likes>>
    /\ UNCHANGED OtherVars

\* the pending and the active jobs of user u are canceled
CancelJobs(u) ==
    [j \in DOMAIN jobs |->
        IF j \in PendingOrActive(u)
        THEN [jobs[j] EXCEPT !.status = "canceled"]
        ELSE jobs[j]]

\* api_post_dashboard, action pause
DashboardPause(u) ==
    /\ u \in DOMAIN users
    /\ CanLog
    /\ IF ~users[u].paused
       THEN /\ jobs' = CancelJobs(u)
            /\ users' = [users EXCEPT ![u].paused = TRUE]
            /\ calls' = WebLog(calls, <<"api_post_dashboard", "pause", u, "ok">>)
            /\ UNCHANGED <<waiting, pc, loc>>
       ELSE BadRequest(<<"api_post_dashboard", "pause", u>>)
    /\ UNCHANGED <<tweets, threads, likes>>
    /\ UNCHANGED OtherVars

\* api_post_dashboard, action fetch
DashboardFetch(u) ==
    /\ u \in DOMAIN users
    /\ CanLog
    /\ IF users[u].paused /\ PendingOrActive(u) = {}
       THEN /\ DashboardCreate("fetch", u, <<"api_post_dashboard", "fetch", u>>)
            /\ UNCHANGED users
       ELSE BadRequest(<<"api_post_dashboard", "fetch", u>>)
    /\ UNCHANGED <<tweets, threads, likes>>
    /\ UNCHANGED OtherVars

\* api_post_job of the earlier web application (app/web/web.py), action
\* start: the statements that create the job and unpause follow the raise
\* inside the test for pending or active jobs and are never reached
ApiPostJobStart(u) ==
    /\ u \in DOMAIN users
    /\ CanLog
    /\ IF users[u].paused /\ PendingOrActive(u) = {}
       THEN /\ calls' = WebLog(calls, <<"api_post_job", "start", u, "ok">>)
            /\ UNCHANGED <<users, jobs, waiting, pc, loc>>
       ELSE BadRequest(<<"api_post_job", "start", u>>)
    /\ UNCHANGED <<tweets, threads, likes>>
    /\ UNCHANGED OtherVars

\* api_post_job, action pause
ApiPostJobPause(u) ==
    /\ u \in DOMAIN users
    /\ CanLog
    /\ IF ~users[u].paused
       THEN /\ jobs' = CancelJobs(u)
            /\ users' = [users EXCEPT ![u].paused = TRUE]
            /\ calls' = WebLog(calls, <<"api_post_job", "pause", u, "ok">>)
            /\ UNCHANGED <<waiting, pc, loc>>
       ELSE BadRequest(<<"api_post_job", "pause", u>>)
    /\ UNCHANGED <<tweets, threads, likes>>
    /\ UNCHANGED OtherVars

\* api_post_tweets: the user sets or clears "exclude for deletion" on one of
\* the statuses on record for the account
ApiPostTweets(u, t, exclude) ==
    /\ u \in DOMAIN users
    /\ t \in DOMAIN tweets
    /\ tweets[t].user_id = u
    /\ tweets[t].twitter_user_id = users[u].twitter_id
    /\ tweets[t].exclude_from_delete # exclude
    /\ tweets' = [tweets EXCEPT ![t].exclude_from_delete = exclude]
    /\ UNCHANGED <<users, threads, likes>>
    /\ UNCHANGED engineVars
    /\ UNCHANGED OtherVars

\* the workers that sleep, and the seconds the first of them has left
Sleepers == {j \in DOMAIN loc : pc[j] \in {"m_sleep", "b_sleep"} /\ loc[j].sleep > 0}

NextWake ==
    CHOOSE d \in {loc[j].sleep : j \in Sleepers} :
        \A j \in Sleepers : d <= loc[j].sleep

\* time passes until the first sleeper is due, while every worker that runs
\* a job sleeps and no job can be taken
Elapse ==
    /\ Sleepers # {}
    /\ \A j \in DOMAIN jobs :
          pc[j] \in {"idle", "done", "failed"} \/ j \in Sleepers
    /\ \A j \in waiting \cap DOMAIN jobs : ~Startable(j)
    /\ loc' = [j \in DOMAIN loc |->
                  IF j \in Sleepers
                  THEN [loc[j] EXCEPT !.sleep = @ - NextWake] ELSE loc[j]]
    /\ UNCHANGED <<users, tweets, threads, now, selected, recomputed,
                   likes, jobs, waiting, pc, calls, ext, nags, tips>>

\* a day passes while the workers wait for a scheduled job
Tick ==
    /\ now < Now0 + MaxDays
    /\ Running = {}
    /\ \E j \in waiting \cap DOMAIN jobs : jobs[j].scheduled_timestamp > now
    /\ now' = now + 1
    /\ UNCHANGED <<users, tweets, threads, selected, recomputed>>
    /\ UNCHANGED engineVars

(***************************************************************************)
(* The engine with one account.  The external service holds a reply chain  *)
(* (status s replies to s - 1) or unrelated statuses of which status 1 is  *)
(* a retweet.  The account is new, with its first fetch job pending, or it *)
(* returns for a full download after its posts were deleted.               *)
(***************************************************************************)
Worlds == {"chain", "roots"}

Service(world, fascist) ==
    [parent |-> [s \in StatusIds |->
                    IF world = "chain" /\ s > 1 THEN s - 1 ELSE NoParent],
     retweets |-> IF world = "chain" THEN {} ELSE {1},
     liked |-> <<LikedStatus>>,
     fascist |-> fascist,
     rate_limits |-> 0,
     dms |-> <<>>,
     follow_errors |-> FALSE,
     lanes |-> FALSE,
     crashes |-> FALSE]

\* the account: both engagement thresholds are at MaxCount
EngineUser(protect) ==
    [DefaultUser(1) EXCEPT !.tweets_enable_retweet_threshold = protect,
                           !.tweets_enable_like_threshold = protect,
                           !.tweets_retweet_threshold = MaxCount,
                           !.tweets_like_threshold = MaxCount]

\* the likes on record of a returning account: unliked, of flagged authors
\* and, unless the authors are flagged, the liked status among them
OldLikes(fascist) ==
    [x \in 1..FascistLikesLimit |->
        [LikeRow(IF fascist THEN LikedStatus + x ELSE LikedStatus + x - 1,
                 1, Now0 - 40, fascist) EXCEPT !.is_deleted = TRUE]]

\* the rows a returning account has: status 1 alone in its thread, deleted
OldTweets(world) ==
    (1 :> TweetRow(1, 1, 1, StatusCreatedAt(1), world = "roots", TRUE, FALSE, 1, 0, 0))

OldThreads == (1 :> ThreadRow(1, 1, FALSE))

FirstJob(type) ==
    /\ jobs = (1 :> JobRow(type, 1, "web", NoData))
    /\ waiting = {1}
    /\ pc = (1 :> "idle")
    /\ loc = (1 :> NoLoc)
    /\ calls = (1 :> <<>>)

Init ==
    /\ now = Now0
    /\ selected = NotCalled
    /\ recomputed = NotRecomputed
    /\ FirstJob("fetch")
    /\ \E world \in Worlds, protect \in BOOLEAN, fascist \in BOOLEAN :
          /\ users = (1 :> EngineUser(protect))
          /\ ext = Service(world, fascist)
          /\ \/ /\ ~fascist
                /\ tweets = <<>>
                /\ threads = <<>>
                /\ likes = <<>>
                /\ nags = {}
                /\ tips = {}
             \/ /\ world = "roots"
                /\ ~protect
                /\ tweets = OldTweets(world)
                /\ threads = OldThreads
                /\ likes = OldLikes(fascist)
                /\ nags = {[user_id |-> 1, timestamp |-> Now0 - 1]}
                /\ tips = {}

FetchStep(j) ==
    \/ FetchStart(j)
    \/ FetchLoadUser(j)
    \/ FetchTweetsPage(j)
    \/ FetchResolve(j)
    \/ FetchPageRateLimit(j)
    \/ FetchResolveRateLimit(j)
    \/ FetchUpsert(j)
    \/ FetchLikesPage(j)
    \/ FetchLike(j)
    \/ FetchSince(j)
    \/ FetchReset(j)
    \/ FetchMark(j)
    \/ FetchFinish(j)

DeleteStep(j) ==
    \/ DeleteCheck(j)
    \/ DeleteActive(j)
    \/ DeleteLoadUser(j)
    \/ DeleteQueryRetweets(j)
    \/ DeleteUnretweet(j)
    \/ DeleteQueryLikes(j)
    \/ DeleteUnlike(j)
    \/ DeleteQueryTweets(j)
    \/ DeleteDestroy(j)
    \/ DeleteDmsAuth(j)
    \/ DeleteDmsRead(j)
    \/ DeleteDmsDestroy(j)
    \/ DeleteSaveProgress(j)
    \/ DeleteFinish(j)
    \/ DeleteReschedule(j)
    \/ DeleteNag(j)

DmStep(j) == DmStart(j) \/ DmSend(j) \/ DmSleep(j)

BlockStep(j) ==
    \/ BlockStart(j)
    \/ BlockUser(j)
    \/ BlockSleep(j)
    \/ BlockSchedule(j)
    \/ BlockCall(j)
    \/ BlockFails(j)

UnblockStep(j) == UnblockStart(j) \/ UnblockCall(j)

DeleteDmsJobStep(j) ==
    \/ DeleteDmsJobStart(j)
    \/ DeleteDmsJobLoadUser(j)
    \/ DeleteDmsJobAuth(j)
    \/ DeleteDmsJobEnabled(j)
    \/ DeleteDmsJobFile(j)
    \/ DeleteDmsJobDelete(j)
    \/ DeleteDmsJobFinish(j)

Next ==
    \/ \E j \in DOMAIN jobs :
          \/ Start(j)
          \/ GuardCreds(j)
          \/ GuardFollow(j)
          \/ FetchStep(j)
          \/ DeleteStep(j)
          \/ DmStep(j)
    \/ \E u \in DOMAIN users :
          \/ DashboardStart(u)
          \/ DashboardPause(u)
          \/ DashboardFetch(u)
    \/ Tick
    \/ Elapse

Spec == Init /\ [][Next]_vars

(***************************************************************************)
(* Claims on the engine.                                                   *)
(***************************************************************************)
\* the moves of a job's status that the lifecycle allows: started, ended by
\* the worker, or canceled before or while the worker runs it
AllowedMoves ==
    {<<"pending", "active">>, <<"active", "finished">>,
     <<"active", "canceled">>, <<"pending", "canceled">>}

\* C1: across every interleaving of jobs, guards and dashboard actions the
\* status of a job only moves pending -> active -> {finished, canceled}, and
\* the status of a finished or canceled job never changes again.
C1_StatusOnlyMovesForward ==
    [][\A j \in DOMAIN jobs :
          jobs'[j].status # jobs[j].status
             => <<jobs[j].status, jobs'[j].status>> \in AllowedMoves]_vars

\* C2: a Tweet row or a Like row whose is_deleted is true keeps it true in
\* every step of every fetch and delete job: the upsert of fetch, the
\* recompute of the excluded threads, the selection and the delete loops.
C2_TombstonesStay ==
    [][/\ \A t \in DOMAIN tweets : tweets[t].is_deleted => tweets'[t].is_deleted
       /\ \A x \in DOMAIN likes : likes[x].is_deleted => likes'[x].is_deleted]_vars

\* a fetch job has written over a row that was deleted and has met again a
\* like that was deleted, a delete job has run since, and both are deleted
C2_Witness ==
    /\ \E j \in DOMAIN jobs :
          /\ jobs[j].job_type = "fetch"
          /\ jobs[j].status = "finished"
          /\ loc[j].reupserted
          /\ loc[j].likes_fetched > 0
    /\ \E j \in DOMAIN jobs :
          jobs[j].job_type = "delete" /\ jobs[j].status = "finished"
    /\ tweets[1].is_deleted
    /\ \E x \in DOMAIN likes :
          likes[x].twitter_id = LikedStatus /\ likes[x].is_deleted

(***************************************************************************)
(* The fetch job alone, on every service without a reply cycle: a status   *)
(* replies to nothing, to an older status of the account, or to a status   *)
(* of someone else.                                                        *)
(***************************************************************************)
Foreign == 21

ReplyLinks ==
    {f \in [StatusIds \cup {Foreign} -> {NoParent, Foreign} \cup StatusIds] :
        /\ f[Foreign] = NoParent
        /\ \A s \in StatusIds : f[s] \in StatusIds => f[s] < s}

InitFetch ==
    /\ now = Now0
    /\ selected = NotCalled
    /\ recomputed = NotRecomputed
    /\ FirstJob("fetch")
    /\ users = (1 :> EngineUser(TRUE))
    /\ \E f \in ReplyLinks, limits \in {0, MaxLimits} :
          ext = [parent |-> f, retweets |-> {}, liked |-> <<LikedStatus>>,
                 fascist |-> FALSE, rate_limits |-> limits, dms |-> <<>>,
                 follow_errors |-> FALSE, lanes |-> FALSE,
                 crashes |-> FALSE]
    /\ tweets = <<>>
    /\ threads = <<>>
    /\ likes = <<>>
    /\ nags = {}
    /\ tips = {}

NextFetch ==
    \/ \E j \in DOMAIN jobs :
          \/ Start(j)
          \/ GuardCreds(j)
          \/ GuardFollow(j)
          \/ FetchStep(j)
          \/ DmStep(j)
    \/ Elapse

SpecFetch == InitFetch /\ [][NextFetch]_vars

RECURSIVE Root(_)
\* the status at the start of the reply chain of status s
Root(s) == IF ext.parent[s] = NoParent THEN s ELSE Root(ext.parent[s])

\* C10: when fetch has resolved the thread of a status, a status that
\* replies to nothing has its own id as conversation id, and a status whose
\* parent lookups all succeeded, from the service or from the cache of the
\* run, has the id of the first status of its reply chain.
C10_ThreadResolvesToRoot ==
    \A j \in DOMAIN jobs :
        pc[j] = "f_upsert" =>
            LET s == Head(loc[j].todo)
            IN  /\ ext.parent[s] = NoParent => loc[j].conv = s
                /\ loc[j].lookups_ok => loc[j].conv = Root(s)

\* C replies to B, B replies to A: C is saved in the thread of A, and B has
\* been resolved to A with a parent tuple taken from the cache
C10_Witness ==
    /\ ext.parent = [s \in StatusIds \cup {Foreign} |->
                        IF s \in 2..3 THEN s - 1 ELSE NoParent]
    /\ \E j \in DOMAIN jobs :
          /\ pc[j] = "f_upsert"
          /\ Head(loc[j].todo) = 2
          /\ loc[j].lookups_ok
          /\ loc[j].from_cache
          /\ loc[j].conv = 1
          /\ \E t \in DOMAIN tweets :
                /\ tweets[t].twitter_id = 3
                /\ threads[tweets[t].thread_id].conversation_id = 1

(***************************************************************************)
(* The delete job alone, on the drawn stores of the selector: the account  *)
(* has pressed start, its delete job is pending, and it has one like.      *)
(***************************************************************************)
\* the direct messages of the account: 40, 7 and 5 days old
DirectMessages ==
    <<[id |-> 31, created_at |-> Now0 - 40], [id |-> 32, created_at |-> Now0 - 7],
      [id |-> 33, created_at |-> Now0 - 5]>>

InitDelete ==
    /\ now = Now0
    /\ selected = NotCalled
    /\ recomputed = NotRecomputed
    /\ FirstJob("delete")
    /\ users = [u \in Users |->
                   IF u = 1 THEN [DefaultUser(1) EXCEPT !.paused = FALSE,
                                                        !.direct_messages = TRUE]
                   ELSE DefaultUser(u)]
    /\ threads = SelThreads
    /\ \E u \in Users, created \in SelCreatedAt,
          rt \in BOOLEAN, deleted \in BOOLEAN, excl \in BOOLEAN :
          \E th \in {NoThread} \cup ThreadsOf(SelThreads, u) :
             tweets = SelBaseTweets
                @@ (5 :> TweetRow(5, u, u, created, rt, deleted, excl, th, 0, 0))
    /\ likes = (1 :> LikeRow(LikedStatus, 1, LikedCreatedAt(LikedStatus), FALSE))
    /\ \E limits \in {0, MaxLimits} :
          ext = [Service("roots", FALSE) EXCEPT !.rate_limits = limits,
                                               !.dms = DirectMessages]
    /\ nags = {}
    /\ tips = {}

NextDelete ==
    \/ \E j \in DOMAIN jobs :
          \/ Start(j)
          \/ GuardCreds(j)
          \/ GuardFollow(j)
          \/ DeleteStep(j)
          \/ DmStep(j)
    \/ Elapse

SpecDelete == InitDelete /\ [][NextDelete]_vars

\* the ids that the destroy_status calls of the tweets loop of job j were
\* given, in the order of the calls
DestroyedTweets(j) ==
    LET mine == SelectSeq(calls[j], LAMBDA c : c[1] = "tweet")
    IN  [i \in 1..Len(mine) |-> mine[i][2]]

\* C5: the list tweets_to_delete returns to the delete job is in ascending
\* order of created_at, and the destroy calls of the job are issued in the
\* order of the list.
C5_SortedAndDestroyedInOrder ==
    \A j \in DOMAIN jobs :
        LET all == loc[j].all
            done == DestroyedTweets(j)
        IN  /\ \A i \in 1..Len(all), k \in 1..Len(all) :
                  i < k => tweets[all[i]].created_at <= tweets[all[k]].created_at
            /\ Len(done) <= Len(all)
            /\ \A i \in 1..Len(done) : done[i] = tweets[all[i]].twitter_id

\* row 3, in a thread, is 31 days old and row 4, in no thread, is 40 days
\* old: the job was given row 4 before row 3, with the drawn row between
\* them or beside one of them, and has destroyed the three in that order
C5_Witness ==
    \E j \in DOMAIN jobs :
        /\ jobs[j].job_type = "delete"
        /\ pc[j] = "d_finish"
        /\ Len(loc[j].all) = 3
        /\ loc[j].all[1] = 4
        /\ loc[j].all[3] = 3
        /\ DestroyedTweets(j) = <<4, 5, 3>>

(***************************************************************************)
(* handle_tweepy_rate_limit (jobs.py), on drawn clocks and reset hints.    *)
(* The clock is read twice, and a second may pass between the two reads.   *)
(***************************************************************************)
\* e.response.headers.get("x-rate-limit-reset") is None
NoHint == 0 - 1

\* int(time.time()) at the first read
Clock0 == 1000

Max2(a, b) == IF a >= b THEN a ELSE b

\* the seconds handle_tweepy_rate_limit sleeps: none if the reset time is
\* not in the future
SleepSeconds(hint, t1, t2) ==
    LET reset_time == IF hint = NoHint THEN t1 + 60 ELSE hint
        sleep_time == reset_time - t2
    IN  IF sleep_time > 0 THEN sleep_time + 1 ELSE 0

\* one call of handle_tweepy_rate_limit by the worker of job j
HandleTweepyRateLimit(j) ==
    /\ pc[j] = "r_limit"
    /\ \E hint \in {NoHint} \cup (Clock0 - MaxHint)..(Clock0 + MaxHint),
          t2 \in {Clock0, Clock0 + 1} :
          calls' = [calls EXCEPT ![j] =
                       Append(@, <<"rate_limit", hint, t2,
                                   SleepSeconds(hint, Clock0, t2)>>)]
    /\ pc' = [pc EXCEPT ![j] = "r_done"]
    /\ UNCHANGED <<users, tweets, threads, likes, jobs, waiting, loc>>
    /\ UNCHANGED OtherVars

InitLimit ==
    /\ now = Now0
    /\ selected = NotCalled
    /\ recomputed = NotRecomputed
    /\ users = (1 :> EngineUser(FALSE))
    /\ tweets = <<>>
    /\ threads = <<>>
    /\ likes = <<>>
    /\ nags = {}
    /\ tips = {}
    /\ ext = Service("roots", FALSE)
    /\ jobs = (1 :> [JobRow("fetch", 1, "web", NoData) EXCEPT !.status = "active"])
    /\ waiting = {}
    /\ pc = (1 :> "r_limit")
    /\ loc = (1 :> NoLoc)
    /\ calls = (1 :> <<>>)

NextLimit == \E j \in DOMAIN jobs : HandleTweepyRateLimit(j)

SpecLimit == InitLimit /\ [][NextLimit]_vars

\* the rate-limit waits in the log of job j
RateLimitWaits(j) == SelectSeq(calls[j], LAMBDA c : c[1] = "rate_limit")

\* C11: on a rate-limit error the wait is max(reset_time - now, 0) + 1
\* seconds, with now + 60 as the reset time when the error carries no hint:
\* a reset time in the past gives a wait of one second, never none.
C11_WaitIsClampedPlusOne ==
    \A j \in DOMAIN jobs :
        \A i \in 1..Len(RateLimitWaits(j)) :
            LET c == RateLimitWaits(j)[i]
                reset == IF c[2] = NoHint THEN c[3] + 60 ELSE c[2]
            IN  c[4] = Max2(reset - c[3], 0) + 1

(***************************************************************************)
(* Fetch and delete on a service that may answer with the rate-limit       *)
(* error.                                                                  *)
(***************************************************************************)
InitRate == InitFetch \/ InitDelete

NextRate ==
    \/ \E j \in DOMAIN jobs :
          \/ Start(j)
          \/ GuardCreds(j)
          \/ GuardFollow(j)
          \/ FetchStep(j)
          \/ DeleteStep(j)
          \/ DmStep(j)
    \/ Elapse

SpecRate == InitRate /\ [][NextRate]_vars

\* entry c of a log is a call that the service answered with the rate-limit
\* error
RateLimitedCall(c) == Len(c) = 3 /\ c[3] = "rate_limit"

\* C12: when a call of a running job is answered with the rate-limit error,
\* the job does not end or fail: its worker waits the computed time and
\* makes the same call again, so that no item is skipped.
C12_RateLimitWaitsAndRetries ==
    \A j \in DOMAIN jobs :
        LET log == calls[j]
        IN  /\ pc[j] = "failed" => (log = <<>> \/ ~RateLimitedCall(log[Len(log)]))
            /\ \A i \in 1..Len(log) :
                  RateLimitedCall(log[i]) =>
                     /\ i + 1 <= Len(log) => log[i + 1][1] = "rate_limit"
                     /\ i + 2 <= Len(log) =>
                           /\ log[i + 2][1] = log[i][1]
                           /\ log[i + 2][2] = log[i][2]

MissingUser == 3

GuardTweets == SelBaseTweets

GuardLikes == (1 :> LikeRow(LikedStatus, 1, LikedCreatedAt(LikedStatus), FALSE))

InitGuard ==
    /\ now = Now0
    /\ selected = NotCalled
    /\ recomputed = NotRecomputed
    /\ \/ \E type \in Guarded, uid \in {1, MissingUser} :
             \/ jobs = (1 :> JobRow(type, uid, "web", NoData))
             \/ jobs = (1 :> [Enqueue(JobRow(type, uid, "rq", NoData),
                                      "jobs", NoRetry)
                                 EXCEPT !.status = "canceled"])
       \/ jobs = <<>>
    /\ waiting = {1}
    /\ pc = (1 :> "idle")
    /\ loc = (1 :> NoLoc)
    /\ calls = (1 :> <<>>)
    /\ \E paused \in BOOLEAN, dms \in BOOLEAN :
          users = (1 :> [DefaultUser(1) EXCEPT !.paused = paused,
                                               !.direct_messages = dms])
    /\ tweets = GuardTweets
    /\ threads = SelThreads
    /\ likes = GuardLikes
    /\ \E errs \in BOOLEAN :
          ext = [Service("roots", FALSE) EXCEPT !.dms = DirectMessages,
                                               !.follow_errors = errs]
    /\ nags = {}
    /\ tips = {}

NextGuard ==
    \/ \E j \in DOMAIN jobs :
          \/ Start(j)
          \/ GuardCreds(j)
          \/ GuardFollow(j)
          \/ FetchStep(j)
          \/ DeleteStep(j)
          \/ DeleteDmsJobStep(j)
          \/ DmStep(j)
    \/ \E j \in DOMAIN pc \ DOMAIN jobs :
          \/ StartMissing(j)
          \/ GuardCredsMissing(j)
    \/ Elapse

SpecGuard == InitGuard /\ [][NextGuard]_vars

\* the credential check of job j has failed
CredsFailed(j) ==
    \E i \in 1..Len(calls[j]) : calls[j][i] = <<"verify_credentials", "unauthorized">>

\* C14: a guarded job passes from the queue to the credential check, from
\* there to the follow check and from there to its body, in this order.
\* Once its credential check has failed the owner is paused, the job is
\* canceled and its worker has returned: the job was not and is not active,
\* it made no other call, no post or like was marked deleted and no job
\* was created.
C14_GuardsInOrderAndCredsFailureStops ==
    [][\A j \in DOMAIN jobs :
          jobs[j].job_type \in Guarded =>
             /\ pc'[j] = "creds" /\ pc[j] # "creds" => pc[j] = "idle"
             /\ pc'[j] = "follow" /\ pc[j] # "follow" => pc[j] = "creds"
             /\ pc'[j] = BodyStart(jobs[j].job_type) /\ pc[j] # pc'[j]
                   => pc[j] = "follow"
             /\ CredsFailed(j)' =>
                   /\ users'[jobs[j].user_id].paused
                   /\ jobs[j].status \in {"pending", "canceled"}
                   /\ jobs'[j].status = "canceled"
                   /\ pc[j] \in {"creds", "done"}
                   /\ pc'[j] = "done"
                   /\ Len(calls'[j]) = 1
                   /\ tweets' = GuardTweets
                   /\ likes' = GuardLikes
                   /\ DOMAIN jobs' = {j}]_vars

\* the credential check of a job that deletes the direct messages of an
\* export has failed: the account, which was running, is paused
C14_Witness ==
    \E j \in DOMAIN jobs :
        /\ jobs[j].job_type = "delete_dms"
        /\ CredsFailed(j)
        /\ jobs[j].status = "canceled"
        /\ users[jobs[j].user_id].paused

\* C15 as stated: the follow check always hands over to the body of the
\* job and leaves the status of the job as it was, whatever error the read
\* of the relationship or the attempt to follow met.
C15_FollowCheckNeverFails ==
    [][\A j \in DOMAIN jobs :
          pc[j] = "follow" /\ pc'[j] # "follow" =>
             /\ pc'[j] = BodyStart(jobs[j].job_type)
             /\ jobs'[j].status = jobs[j].status]_vars

\* job j met an error of create_friendship in its follow check
CreateFailed(j) ==
    \E i \in 1..Len(calls[j]) : calls[j][i] = <<"create_friendship", "error">>

\* C15, amended: an error of the attempt to follow the system account never
\* fails the job: the follow check hands over to the body of the job with
\* the job record as it was.
C15_CreateErrorNeverFails ==
    [][\A j \in DOMAIN jobs :
          pc[j] = "follow" /\ CreateFailed(j)' =>
             /\ pc'[j] = BodyStart(jobs[j].job_type)
             /\ jobs'[j] = jobs[j]]_vars

\* a fetch job whose attempt to follow failed has run to its end
C15_Witness ==
    \E j \in DOMAIN jobs :
        /\ jobs[j].job_type = "fetch"
        /\ CreateFailed(j)
        /\ jobs[j].status = "finished"
        /\ loc[j].tweets_fetched > 0

(***************************************************************************)
(* The end of fetch: the account, paused or not, has between three and     *)
(* five likes of flagged accounts on record, made just within or just      *)
(* outside the last SixMonths days, and may like one more that the job     *)
(* fetches; another account has a recent like of a flagged account.        *)
(***************************************************************************)
FlaggedLikes(k, created) ==
    [x \in 1..(k + 1) |->
        IF x <= k THEN LikeRow(LikedStatus + x, 1, created, TRUE)
        ELSE LikeRow(LikedStatus + x, 2, Now0 - 1, TRUE)]

InitFinish ==
    /\ now = Now0
    /\ selected = NotCalled
    /\ recomputed = NotRecomputed
    /\ FirstJob("fetch")
    /\ \E paused \in BOOLEAN :
          users = (1 :> [DefaultUser(1) EXCEPT !.paused = paused])
                     @@ (2 :> DefaultUser(2))
    /\ \E fascist \in BOOLEAN : ext = Service("roots", fascist)
    /\ \E k \in (FascistLikesLimit - 1)..(FascistLikesLimit + 1),
          age \in {SixMonths - 1, SixMonths} :
          likes = FlaggedLikes(k, Now0 - age)
    /\ tweets = <<>>
    /\ threads = <<>>
    /\ nags = {}
    /\ tips = {}

NextFinish ==
    \/ \E j \in DOMAIN jobs :
          \/ Start(j)
          \/ GuardCreds(j)
          \/ GuardFollow(j)
          \/ FetchStep(j)
          \/ DmStep(j)
    \/ Elapse

SpecFinish == InitFinish /\ [][NextFinish]_vars

\* the likes of flagged accounts of user uid that are less than 180 days old
FlaggedWithin180(uid) ==
    {x \in DOMAIN likes :
        likes[x].user_id = uid /\ likes[x].is_fascist
            /\ now - likes[x].created_at < 180}

\* the jobs of type t that the step creates
Created(t) ==
    {i \in DOMAIN jobs' \ DOMAIN jobs : jobs'[i].job_type = t}

\* C16: in the step that ends a fetch job, if its user has more than 4
\* likes of flagged accounts from the last 180 days, one block job is
\* created, pending in the default queue, no DM job is created and the
\* fetch job is finished; otherwise no block job is created, and one DM job
\* is created if the account is paused and none if it is not.
C16_EndOfFetch ==
    [][\A j \in DOMAIN jobs :
          jobs[j].job_type = "fetch" /\ pc[j] = "f_finish" /\ pc'[j] # pc[j] =>
             LET uid == jobs[j].user_id
             IN  /\ DOMAIN jobs' \ DOMAIN jobs = Created("block") \cup Created("dm")
                 /\ Cardinality(FlaggedWithin180(uid)) > 4 =>
                       /\ Cardinality(Created("block")) = 1
                       /\ \A b \in Created("block") :
                             /\ jobs'[b].queue = "jobs"
                             /\ jobs'[b].status = "pending"
                             /\ jobs'[b].data.user_id = uid
                             /\ b \in waiting'
                       /\ Created("dm") = {}
                       /\ jobs'[j].status = "finished"
                 /\ Cardinality(FlaggedWithin180(uid)) <= 4 =>
                       /\ Created("block") = {}
                       /\ Cardinality(Created("dm")) =
                             IF users[uid].paused THEN 1 ELSE 0
                       /\ \A d \in Created("dm") : d \in waiting']_vars

\* a fetch job is finished, its user has just five recent likes of flagged
\* accounts, and a block job waits in the default queue with no DM job
C16_Witness ==
    \E j \in DOMAIN jobs, b \in DOMAIN jobs :
        /\ jobs[j].job_type = "fetch"
        /\ jobs[j].status = "finished"
        /\ Cardinality(FlaggedWithin180(jobs[j].user_id)) = 5
        /\ jobs[b].job_type = "block"
        /\ jobs[b].queue = "jobs"
        /\ b \in waiting
        /\ DmJobs = {}

\* the jobs that job j has scheduled with enqueue_at
Rescheduled(j) ==
    {calls[j][i][2] : i \in {k \in 1..Len(calls[j]) : calls[j][k][1] = "enqueue_at"}}

\* C17: a delete job that is finished and past its reschedule has created
\* one job: a pending delete job of the same user, due one day after the
\* day the job finished, waiting in the default queue.  A delete job that
\* ended canceled has created none.
C17_FinishedDeleteReschedules ==
    \A j \in DOMAIN jobs :
        jobs[j].job_type = "delete" =>
           /\ jobs[j].status = "finished" /\ pc[j] \in {"d_nag", "done"} =>
                 /\ Cardinality(Rescheduled(j)) = 1
                 /\ DOMAIN jobs \ {j} = Rescheduled(j) \cup DmJobs
                 /\ \A i \in Rescheduled(j) :
                       /\ jobs[i].job_type = "delete"
                       /\ jobs[i].status = "pending"
                       /\ jobs[i].user_id = jobs[j].user_id
                       /\ jobs[i].scheduled_timestamp = now + 1
                       /\ jobs[i].queue = "jobs"
                       /\ i \in waiting
           /\ jobs[j].status = "canceled" /\ pc[j] = "done" =>
                 /\ Rescheduled(j) = {}
                 /\ DOMAIN jobs = {j}

\* a delete job has finished and the next one waits for the next day
C17_Witness ==
    \E j \in DOMAIN jobs, i \in DOMAIN jobs :
        /\ jobs[j].job_type = "delete"
        /\ jobs[j].status = "finished"
        /\ pc[j] = "done"
        /\ Rescheduled(j) = {i}
        /\ jobs[i].scheduled_timestamp = now + 1
        /\ jobs[i].status = "pending"

(***************************************************************************)
(* The jobs the engine enqueues.  A fetch job of an account with five      *)
(* likes of flagged accounts, 179 days old, ends in a block job, which     *)
(* sends a DM and schedules the unblock job for the next day; a delete job *)
(* of a running account ends in the next delete job and in DM jobs.  An    *)
(* execution of a job of the engine may fail.                              *)
(***************************************************************************)
InitRetry ==
    /\ now = Now0
    /\ selected = NotCalled
    /\ recomputed = NotRecomputed
    /\ \/ /\ FirstJob("fetch")
          /\ users = (1 :> DefaultUser(1)) @@ (2 :> DefaultUser(2))
          /\ likes = FlaggedLikes(FascistLikesLimit + 1, Now0 - (SixMonths - 1))
       \/ /\ FirstJob("delete")
          /\ users = (1 :> [DefaultUser(1) EXCEPT !.paused = FALSE])
                        @@ (2 :> DefaultUser(2))
          /\ likes = GuardLikes
    /\ ext = Service("roots", FALSE)
    /\ tweets = GuardTweets
    /\ threads = SelThreads
    /\ nags = {}
    /\ tips = {}

NextRetry ==
    \/ \E j \in DOMAIN jobs :
          \/ Start(j)
          \/ DeliveryFails(j)
          \/ GuardCreds(j)
          \/ GuardFollow(j)
          \/ FetchStep(j)
          \/ DeleteStep(j)
          \/ DmStep(j)
          \/ BlockStep(j)
          \/ UnblockStep(j)
    \/ Tick
    \/ Elapse

SpecRetry == InitRetry /\ [][NextRetry]_vars

\* C18: every job the engine has enqueued carries the retry policy: its
\* re-deliveries are spaced 60, 120 and 240 seconds, there are at most
\* three, and it is kept as failed only after the third.
C18_EnqueuedJobsAreRetried ==
    \A j \in DOMAIN jobs :
        jobs[j].origin = "rq" =>
           /\ Len(Retries(j)) <= 3
           /\ \A i \in 1..Len(Retries(j)) : Retries(j)[i] = <<60, 120, 240>>[i]
           /\ pc[j] = "failed" => Len(Retries(j)) = 3

\* the worker of job j has returned or has raised
Ended(j) == pc[j] \in {"done", "failed"}

\* C19: a guarded job whose user has no row, or that has no row itself,
\* ends canceled, without a call to the service, without a post or like
\* marked deleted and without a new job.
C19_MissingUserOrJobCancels ==
    \A j \in DOMAIN pc :
        /\ Ended(j)
        /\ j \in DOMAIN jobs =>
              jobs[j].job_type \in Guarded /\ jobs[j].user_id \notin DOMAIN users
        => /\ j \in DOMAIN jobs
           /\ jobs[j].status = "canceled"
           /\ calls[j] = <<>>
           /\ tweets = GuardTweets
           /\ likes = GuardLikes
           /\ DOMAIN jobs = {j}

(***************************************************************************)
(* All the jobs of the engine, without the dashboard: the guarded jobs of  *)
(* SpecGuard and the jobs the engine enqueues of SpecRetry.                *)
(***************************************************************************)
InitJobs == InitGuard \/ InitRetry

NextJobs == NextGuard \/ NextRetry

SpecJobs == InitJobs /\ [][NextJobs]_vars

\* job j, of a user on record, was canceled by its worker: by the credential
\* guard, or by delete_dms_job after it had loaded the user
CanceledByWorker(j) ==
    /\ jobs[j].status = "canceled"
    /\ jobs[j].user_id \in DOMAIN users
    /\ Ended(j)
    /\ \/ CredsFailed(j)
       \/ jobs[j].job_type \in {"delete_dms", "delete_dm_groups"}
             /\ jobs[j].origin = "web"

DashRows ==
    {[JobRow(type, uid, "web", NoData) EXCEPT !.status = st] :
        type \in {"fetch", "delete"}, uid \in Users,
        st \in {"pending", "active", "finished", "canceled"}}

InitDash ==
    /\ now = Now0
    /\ selected = NotCalled
    /\ recomputed = NotRecomputed
    /\ \E paused \in BOOLEAN :
          users = (1 :> [DefaultUser(1) EXCEPT !.paused = paused])
                     @@ (2 :> DefaultUser(2))
    /\ \E n \in 0..2 : \E rows \in [1..n -> DashRows] :
          /\ jobs = rows
          /\ waiting = {j \in 1..n : rows[j].status = "pending"}
          /\ pc = [j \in 1..n |-> "idle"]
          /\ loc = [j \in 1..n |-> NoLoc]
          /\ calls = (0 :> <<>>) @@ [j \in 1..n |-> <<>>]
    /\ tweets = <<>>
    /\ threads = <<>>
    /\ likes = <<>>
    /\ ext = Service("roots", FALSE)
    /\ nags = {}
    /\ tips = {}

NextDash ==
    \E u \in DOMAIN users :
       \/ DashboardStart(u)
       \/ DashboardPause(u)
       \/ DashboardFetch(u)
       \/ ApiPostJobStart(u)
       \/ ApiPostJobPause(u)

SpecDash == InitDash /\ [][NextDash]_vars

\* the step answers a request: the entry it adds to the log of the web
\* application
Answered == calls'[0][Len(calls'[0])]

\* C21: a start request for a paused account without pending or active job
\* unpauses the account and adds one job, a pending delete job of the
\* account, and leaves the other jobs alone; a start request for any other
\* account is rejected and leaves the accounts and the jobs as they were.
C21_StartUnpausesAndCreatesDelete ==
    [][Len(calls'[0]) > Len(calls[0]) /\ Answered[2] = "start" =>
          LET u == Answered[3]
          IN  IF users[u].paused /\ PendingOrActive(u) = {}
              THEN /\ ~users'[u].paused
                   /\ \A v \in DOMAIN users \ {u} : users'[v] = users[v]
                   /\ Cardinality(DOMAIN jobs' \ DOMAIN jobs) = 1
                   /\ \A j \in DOMAIN jobs : jobs'[j] = jobs[j]
                   /\ \A j \in DOMAIN jobs' \ DOMAIN jobs :
                         /\ jobs'[j].job_type = "delete"
                         /\ jobs'[j].status = "pending"
                         /\ jobs'[j].user_id = u
              ELSE /\ Answered[4] = "bad_request"
                   /\ users' = users
                   /\ jobs' = jobs]_vars

(***************************************************************************)
(* The failed lookup of a parent during the thread walk of fetch.          *)
(***************************************************************************)
\* a step of job j in which the lookup of a parent fails
LookupFails(j) ==
    /\ pc[j] = "f_resolve"
    /\ loc[j].lookups_ok
    /\ ~loc'[j].lookups_ok

\* a step of job j that follows a failed lookup
UpsertsAfterFailure(j) ==
    /\ pc[j] = "f_upsert"
    /\ ~loc[j].lookups_ok
    /\ loc'[j] # loc[j]

\* C22: a failed lookup of a parent is no error of the fetch job: the walk
\* stops, the conversation id is the last id resolved before the failure (the
\* id of the status itself when the first lookup fails), the status is
\* upserted in the thread of that id, and the job stays active and goes on
\* with the statuses that remain.
C22_FailedLookupStopsWalkOnly ==
    [][\A j \in DOMAIN jobs :
          /\ LookupFails(j) =>
                /\ pc'[j] = "f_upsert"
                /\ loc'[j].conv = loc[j].conv
                /\ ext.parent[loc[j].conv] = loc[j].reply_to
                /\ ext.parent[Head(loc[j].todo)] = loc[j].reply_to
                      => loc[j].conv = Head(loc[j].todo)
                /\ loc'[j].todo = loc[j].todo
                /\ jobs' = jobs /\ tweets' = tweets /\ threads' = threads
          /\ UpsertsAfterFailure(j) =>
                /\ \E t \in DOMAIN tweets' :
                      /\ tweets'[t].twitter_id = Head(loc[j].todo)
                      /\ threads'[tweets'[t].thread_id].conversation_id
                            = loc[j].conv
                /\ loc'[j].todo = Tail(loc[j].todo)
                /\ loc'[j].tweets_fetched = loc[j].tweets_fetched + 1
                /\ pc'[j] \in {"f_resolve", "f_upsert", "f_page"}
                /\ jobs'[j].status = "active"]_vars

\* C replies to B, B replies to A: the lookup of A failed, C is saved in the
\* thread of B, and the job has gone on to save every status and to finish
C22_Witness ==
    /\ ext.parent = [s \in StatusIds \cup {Foreign} |->
                        IF s \in 2..3 THEN s - 1 ELSE NoParent]
    /\ \E j \in DOMAIN jobs :
          /\ jobs[j].job_type = "fetch"
          /\ jobs[j].status = "finished"
          /\ \E t \in DOMAIN tweets :
                /\ tweets[t].twitter_id = 3
                /\ threads[tweets[t].thread_id].conversation_id = 2
          /\ \A s \in StatusIds : \E t \in DOMAIN tweets : tweets[t].twitter_id = s

(***************************************************************************)
(* The progress a delete job stores, against the rows it has marked.       *)
(***************************************************************************)
\* the ids job j has called the service for in the loop of one kind
CalledFor(j, kind) ==
    {calls[j][i][2] : i \in {k \in 1..Len(calls[j]) : calls[j][k][1] = kind}}

\* the rows of the owner that job j has marked deleted in the loops over
\* posts, by kind, and in the loop over likes
MarkedTweets(j, kind) ==
    {t \in DOMAIN tweets :
        /\ tweets[t].user_id = jobs[j].user_id
        /\ tweets[t].is_deleted
        /\ tweets[t].twitter_id \in CalledFor(j, kind)}

MarkedLikes(j) ==
    {x \in DOMAIN likes :
        /\ likes[x].user_id = jobs[j].user_id
        /\ likes[x].is_deleted
        /\ likes[x].twitter_id \in CalledFor(j, "like")}

\* the stored count is the number of marked rows, or one less
AtMostOneBehind(stored, marked) == stored <= marked /\ marked <= stored + 1

\* C23: during the loops of a delete job over retweets, likes and posts the
\* stored counter of each category is the number of rows the job has marked
\* deleted in that category, or one less.
C23_StoredProgressAtMostOneBehind ==
    \A j \in DOMAIN jobs :
        jobs[j].job_type = "delete" /\ j \in DOMAIN loc =>
            /\ AtMostOneBehind(loc[j].saved.retweets_deleted,
                               Cardinality(MarkedTweets(j, "retweet")))
            /\ AtMostOneBehind(loc[j].saved.likes_deleted,
                               Cardinality(MarkedLikes(j)))
            /\ AtMostOneBehind(loc[j].saved.tweets_deleted,
                               Cardinality(MarkedTweets(j, "tweet")))

\* a second post has been marked deleted and its count is not stored yet
C23_Witness ==
    \E j \in DOMAIN jobs :
        /\ jobs[j].job_type = "delete"
        /\ pc[j] = "d_save"
        /\ loc[j].saved.tweets_deleted = 1
        /\ Cardinality(MarkedTweets(j, "tweet")) = 2

(***************************************************************************)
(* The delete job and the delete job it schedules for the next day: the    *)
(* account has four posts, of which one comes of age the next day, a like  *)
(* and three direct messages, and the service may answer one call of each  *)
(* job with an error.                                                      *)
(***************************************************************************)
InitSweep ==
    /\ now = Now0
    /\ selected = NotCalled
    /\ recomputed = NotRecomputed
    /\ FirstJob("delete")
    /\ \E dm \in BOOLEAN :
          users = (1 :> [DefaultUser(1) EXCEPT !.paused = FALSE,
                                               !.direct_messages = dm])
                     @@ (2 :> DefaultUser(2))
    /\ threads = SelThreads
    /\ \E rt \in BOOLEAN :
          tweets = [SelBaseTweets EXCEPT ![4].is_retweet = rt,
                                         ![1].created_at = Now0 - 30]
    /\ likes = GuardLikes
    /\ \E limits \in {0, MaxLimits} :
          ext = [Service("roots", FALSE) EXCEPT !.rate_limits = limits,
                                               !.dms = DirectMessages]
    /\ nags = {}
    /\ tips = {}

NextSweep ==
    \/ \E j \in DOMAIN jobs :
          \/ Start(j)
          \/ GuardCreds(j)
          \/ GuardFollow(j)
          \/ DeleteStep(j)
          \/ DmStep(j)
    \/ Tick
    \/ Elapse

SpecSweep == InitSweep /\ [][NextSweep]_vars

\* the loops of the delete job and the kind of call each makes
SweepLoops ==
    [d_unretweet |-> "retweet", d_unlike |-> "like", d_destroy |-> "tweet",
     d_dmdel |-> "dm"]

\* the ids whose call of one kind failed in job j
FailedFor(j, kind) ==
    {calls[j][i][2] : i \in {k \in 1..Len(calls[j]) :
                                calls[j][k][1] = kind /\ calls[j][k][3] # "ok"}}

\* the number of calls of one kind job j has made for id
Attempts(j, kind, id) ==
    Cardinality({k \in 1..Len(calls[j]) :
                    calls[j][k][1] = kind /\ calls[j][k][2] = id})

\* the id of an item of the list of a loop
ItemId(lp, item) ==
    CASE lp = "d_unlike" -> likes[item].twitter_id
      [] lp = "d_dmdel" -> item.id
      [] OTHER -> tweets[item].twitter_id

\* a call of a loop of job j fails, and the loop counts the item and goes on
\* with the items that remain; a loop ends when no item remains
LoopsSweep(j) ==
    \A lp \in DOMAIN SweepLoops :
        pc[j] = lp =>
           /\ Len(calls'[j]) > Len(calls[j]) =>
                 /\ calls'[j][Len(calls'[j])][1] = SweepLoops[lp]
                 /\ calls'[j][Len(calls'[j])][2] = ItemId(lp, Head(loc[j].list))
                 /\ loc'[j].list = Tail(loc[j].list)
                 /\ Progress(loc'[j]) # Progress(loc[j])
                 /\ pc'[j] = "d_save" /\ loc'[j].loop = lp
                 /\ jobs'[j].status = "active"
           /\ pc'[j] \notin {lp, "d_save"} => loc[j].list = <<>>

\* no item is attempted twice by one job
OneAttemptEach(j) ==
    \A kind \in {"retweet", "like", "tweet", "dm"} :
        \A id \in CalledFor(j, kind) : Attempts(j, kind, id) = 1

\* C24 as stated: in the loops of a delete job a failing call is swallowed
\* and counted, every remaining item gets its attempt, each item gets one
\* attempt in the job, and an item whose call failed is not attempted again
\* by a later delete job, direct messages included.
C24_FailedItemNeverAttemptedAgain ==
    \A j \in DOMAIN jobs, k \in DOMAIN jobs :
        (jobs[j].job_type = "delete" /\ jobs[k].job_type = "delete" /\ j < k
            /\ j \in DOMAIN calls /\ k \in DOMAIN calls) =>
            \A kind \in {"retweet", "like", "tweet", "dm"} :
                FailedFor(j, kind) \cap CalledFor(k, kind) = {}

\* C24, amended: in the loops of a delete job a failing call is swallowed
\* and counted, every remaining item gets its attempt, each item gets one
\* attempt in the job, and a retweet, like or post whose call failed is not
\* attempted again by a later delete job.
C24_FailedPostNeverAttemptedAgain ==
    /\ [][\A j \in DOMAIN jobs : LoopsSweep(j)]_vars
    /\ [](\A j \in DOMAIN calls :
             (j \in DOMAIN jobs /\ jobs[j].job_type = "delete") =>
                /\ OneAttemptEach(j)
                /\ \A k \in DOMAIN calls :
                      (k \in DOMAIN jobs /\ jobs[k].job_type = "delete" /\ j < k) =>
                         \A kind \in {"retweet", "like", "tweet"} :
                            FailedFor(j, kind) \cap CalledFor(k, kind) = {})

\* the call for a post failed in the first delete job; the delete job of the
\* next day has called for the post that came of age and has finished
C24_Witness ==
    \E j \in DOMAIN jobs, k \in DOMAIN jobs :
        /\ jobs[j].job_type = "delete" /\ jobs[k].job_type = "delete" /\ j < k
        /\ FailedFor(j, "tweet") # {}
        /\ CalledFor(j, "tweet") \ FailedFor(j, "tweet") # {}
        /\ jobs[k].status = "finished"
        /\ CalledFor(k, "tweet") # {}

(***************************************************************************)
(* The nag at the end of a delete job: the Nag table holds nags of 31 and  *)
(* of 30 days ago and a nag of another account, or some of them, and the   *)
(* Tip table holds at most one tip.                                        *)
(***************************************************************************)
NagChoices ==
    {[user_id |-> 1, timestamp |-> Now0 - (OneMonth + 1)],
     [user_id |-> 1, timestamp |-> Now0 - OneMonth],
     [user_id |-> 2, timestamp |-> Now0 - 1]}

TipChoices ==
    [user_id : {1, 2}, paid : BOOLEAN, refunded : BOOLEAN,
     timestamp : {Now0 - OneYear, Now0 - (OneYear - 1)}]

InitNag ==
    /\ now = Now0
    /\ selected = NotCalled
    /\ recomputed = NotRecomputed
    /\ jobs = (1 :> JobRow("delete", 1, "web", NoData))
    /\ waiting = {1}
    /\ pc = (1 :> "idle")
    /\ loc = (1 :> NoLoc)
    /\ calls = (1 :> <<>>)
    /\ users = (1 :> [DefaultUser(1) EXCEPT !.paused = FALSE,
                                            !.retweets_likes = FALSE])
                  @@ (2 :> DefaultUser(2))
    /\ threads = SelThreads
    /\ tweets = SelBaseTweets
    /\ likes = GuardLikes
    /\ ext = Service("roots", FALSE)
    /\ nags \in SUBSET NagChoices
    /\ tips \in {{}} \cup {{t} : t \in TipChoices}

NextNag ==
    \/ \E j \in DOMAIN jobs :
          \/ Start(j)
          \/ GuardCreds(j)
          \/ GuardFollow(j)
          \/ DeleteStep(j)
          \/ DmStep(j)
    \/ Elapse

SpecNag == InitNag /\ [][NextNag]_vars

\* the Nag records of the owner of job j
NagsOf(j) == {n \in nags : n.user_id = jobs[j].user_id}

\* a Nag of the owner of job j is on record and none is younger than 30 days
LatestNagIsOld(j) ==
    /\ NagsOf(j) # {}
    /\ \A n \in NagsOf(j) : n.timestamp < now - 30

\* the owner of job j has a paid tip, not refunded, of the last 365 days
HasTipped(j) ==
    \E t \in tips : /\ t.user_id = jobs[j].user_id
                     /\ t.paid /\ ~t.refunded
                     /\ t.timestamp > now - 365

\* the messages of the DM jobs a step enqueues, as a sequence in the order of
\* their ids
NewDms ==
    [i \in 1..(Cardinality(DOMAIN jobs') - Cardinality(DOMAIN jobs)) |->
        LET row == jobs'[Cardinality(DOMAIN jobs) + i]
        IN  IF row.job_type = "dm" /\ row.queue = "dm_jobs_high"
            THEN row.data.message ELSE "other"]

\* the step of job j that ends the delete job, after the next delete job was
\* scheduled
NagStep(j) == pc[j] = "d_nag" /\ pc'[j] = "done"

\* C25: at the end of a finished delete job, an owner without a Nag record
\* gets one Nag record and two DM jobs, the congratulation and the request
\* for a tip; an owner whose latest Nag is older than 30 days and who has no
\* paid tip, not refunded, of the last 365 days gets one Nag record and one
\* DM job with the totals; any other owner gets no Nag record and no DM job.
C25_NagRules ==
    [][\A j \in DOMAIN jobs :
          NagStep(j) =>
             /\ jobs[j].status = "finished"
             /\ IF NagsOf(j) = {}
                THEN /\ Cardinality(nags' \ nags) = 1
                     /\ \A n \in nags' \ nags : n.user_id = jobs[j].user_id
                     /\ nags \subseteq nags'
                     /\ NewDms = <<"congratulations", "tip">>
                ELSE IF LatestNagIsOld(j) /\ ~HasTipped(j)
                THEN /\ Cardinality(nags' \ nags) = 1
                     /\ \A n \in nags' \ nags : n.user_id = jobs[j].user_id
                     /\ nags \subseteq nags'
                     /\ NewDms = <<"totals">>
                ELSE /\ nags' = nags
                     /\ NewDms = <<>>]_vars

\* the owner was nagged 31 days ago and has only a refunded tip: the delete
\* job has ended with a second Nag record and one DM job, with the totals
C25_Witness ==
    \E j \in DOMAIN jobs :
        /\ jobs[j].job_type = "delete"
        /\ pc[j] = "done"
        /\ jobs[j].status = "finished"
        /\ \E t \in tips : t.user_id = 1 /\ t.paid /\ t.refunded
        /\ NagsOf(j) = {[user_id |-> 1, timestamp |-> Now0 - (OneMonth + 1)],
                        [user_id |-> 1, timestamp |-> now]}
        /\ Cardinality(DmJobs) = 1
        /\ \A d \in DmJobs : jobs[d].data.message = "totals"

(***************************************************************************)
(* The block job and the unblock job, with workers for each lane and the   *)
(* sleeps of the workers in seconds.  A block job is waiting, for account  *)
(* 1 or for an account that is no user, behind up to two DM jobs in the DM *)
(* lane; or an unblock job is due.                                         *)
(***************************************************************************)
\* an account of the service that is no user of the system
Outsider == 9

\* the payloads of a block or unblock job: of a user, and of an account that
\* is no user
Payloads ==
    {[user_id |-> 1, twitter_id |-> TwitterId(1)], [twitter_id |-> Outsider]}

\* n DM jobs in the DM lane, for user 2
EarlierDms(n) == [i \in 1..n |-> DmRow(DefaultUser(2))]

InitBlock ==
    /\ now = Now0
    /\ selected = NotCalled
    /\ recomputed = NotRecomputed
    /\ tweets = <<>>
    /\ threads = <<>>
    /\ nags = {}
    /\ tips = {}
    /\ \E k \in {0, FascistLikesLimit + 1} :
          likes = FlaggedLikes(k, Now0 - MaxDays)
    /\ \E blocked \in BOOLEAN, paused \in BOOLEAN :
          users = (1 :> [DefaultUser(1) EXCEPT !.blocked = blocked,
                                               !.paused = paused])
                     @@ (2 :> DefaultUser(2))
    /\ \E data \in Payloads, crashes \in BOOLEAN :
          /\ ext = [Service("roots", FALSE) EXCEPT !.lanes = TRUE,
                                                   !.crashes = crashes]
          /\ \/ \E n \in 0..(MaxDms - 1) :
                   jobs = EarlierDms(n)
                             \o <<Enqueue(JobRow("block", 0, "rq", data),
                                          "jobs", RetryIntervals)>>
             \/ jobs = <<Enqueue(JobRow("unblock", 0, "rq", data),
                                 "jobs", NoRetry)>>
    /\ waiting = DOMAIN jobs
    /\ pc = [j \in DOMAIN jobs |-> "idle"]
    /\ loc = [j \in DOMAIN jobs |-> NoLoc]
    /\ calls = [j \in DOMAIN jobs |-> <<>>]

NextBlock ==
    \/ \E j \in DOMAIN jobs :
          \/ Start(j)
          \/ BlockStep(j)
          \/ UnblockStep(j)
          \/ DmStep(j)
    \/ Elapse

SpecBlock == InitBlock /\ [][NextBlock]_vars

\* the entries of one kind in the log of job j
Logged(j, kind) == SelectSeq(calls[j], LAMBDA c : c[1] = kind)

\* C26: when a block job that set the flags of its user issues the block
\* call, the DM job it created for the user has issued its send call,
\* whatever the DM lane held when the DM job was enqueued.
C26_DmSentBeforeBlockCall ==
    \A j \in DOMAIN jobs :
        (jobs[j].job_type = "block" /\ Logged(j, "block") # <<>>
            /\ Retries(j) = <<>>) =>
            \A i \in 1..Len(Logged(j, "blocked")) :
                Logged(Logged(j, "blocked")[i][3], "send") # <<>>

\* C27: a block job that has run has issued the block call for the id of
\* its payload, whether the payload names a user of the system or not.
C27_EveryBlockJobCallsBlock ==
    \A j \in DOMAIN jobs :
        (jobs[j].job_type = "block" /\ jobs[j].status = "finished") =>
            \E i \in 1..Len(Logged(j, "block")) :
                Logged(j, "block")[i][2] = jobs[j].data.twitter_id

\* the unblock jobs on record for user uid
UnblockJobsOf(uid) ==
    {k \in DOMAIN jobs :
        /\ jobs[k].job_type = "unblock"
        /\ "user_id" \in DOMAIN jobs[k].data
        /\ jobs[k].data.user_id = uid}

\* the day on which user uid is to be unblocked
UnblockDue(uid) ==
    LET flagged == {x \in DOMAIN likes :
                       likes[x].user_id = uid /\ likes[x].is_fascist}
    IN  IF flagged = {} THEN now + 180
        ELSE CHOOSE d \in {likes[x].created_at + 180 : x \in flagged} :
                \A x \in flagged : likes[x].created_at + 180 <= d

\* C28: once a block job that set the blocked flag of an account has ended,
\* one unblock job of the account is on record, scheduled 180 days after the
\* newest like of a flagged author, or after now when there is none; so it is
\* also when the job failed after it had set the flag and was delivered
\* again.
C28_OneUnblockJobPerBlockedAccount ==
    \A j \in DOMAIN jobs :
        (jobs[j].job_type = "block" /\ pc[j] = "done") =>
            \A i \in 1..Len(Logged(j, "blocked")) :
                LET uid == Logged(j, "blocked")[i][2]
                IN  /\ Cardinality(UnblockJobsOf(uid)) = 1
                    /\ \A k \in UnblockJobsOf(uid) :
                          jobs[k].scheduled_timestamp = UnblockDue(uid)

\* the step in which unblock job j makes its call and ends
UnblockActs(j) == jobs[j].job_type = "unblock" /\ pc[j] = "u_call" /\ pc'[j] = "done"

\* C29: an unblock job issues the unblock call for the id of its payload and
\* ends finished, also when the call fails; it clears the blocked flag of
\* the account of its payload when the account is on record and blocked, and
\* leaves every other account record as it is; it never sets paused to
\* false.
C29_UnblockFrame ==
    [][\A j \in DOMAIN jobs :
          /\ UnblockActs(j) =>
                /\ Len(calls'[j]) = Len(calls[j]) + 1
                /\ calls'[j][Len(calls'[j])][1] = "unblock"
                /\ calls'[j][Len(calls'[j])][2] = jobs[j].data.twitter_id
                /\ jobs'[j].status = "finished"
                /\ \A u \in DOMAIN users :
                      IF "user_id" \in DOMAIN jobs[j].data
                            /\ jobs[j].data.user_id = u /\ users[u].blocked
                      THEN /\ ~users'[u].blocked
                           /\ [users'[u] EXCEPT !.blocked = TRUE, !.paused = TRUE]
                                 = [users[u] EXCEPT !.paused = TRUE]
                      ELSE users'[u] = users[u]
          /\ (jobs[j].job_type = "unblock" /\ pc'[j] # pc[j]) =>
                /\ DOMAIN users' = DOMAIN users
                /\ \A u \in DOMAIN users : users[u].paused => users'[u].paused]_vars

\* the unblock call of a job for account 1 failed; the job is finished and
\* the account is paused and no longer blocked
C29_Witness ==
    \E j \in DOMAIN jobs :
        /\ jobs[j].job_type = "unblock"
        /\ jobs[j].status = "finished"
        /\ calls[j] = <<<<"unblock", TwitterId(1), "error">>>>
        /\ users[1].paused /\ ~users[1].blocked

(***************************************************************************)
(* The job that deletes the direct messages of an export, under SpecGuard. *)
(***************************************************************************)
\* the messages of the export that are old enough for the owner of job j
DueMessages(j) ==
    {i \in 1..Len(ext.dms) :
        ext.dms[i].created_at
            <= now - users[jobs[j].user_id].direct_messages_threshold}

\* job j, which deletes the messages of an export, went through its
\* preconditions and ended
ImportDone(j) ==
    /\ jobs[j].job_type \in {"delete_dms", "delete_dm_groups"}
    /\ jobs[j].status = "finished"
    /\ pc[j] = "done"

\* one delete call for each message that is due and none for the others, and
\* the stored counters add up to the number of the messages that are due
ImportSweep(j) ==
    /\ \A i \in 1..Len(ext.dms) :
          Attempts(j, "dm", ext.dms[i].id) = IF i \in DueMessages(j) THEN 1 ELSE 0
    /\ loc[j].saved.dms_deleted + loc[j].saved.dms_skipped
          = Cardinality(DueMessages(j))
    /\ loc[j].saved.dms_skipped = Cardinality(FailedFor(j, "dm"))

\* C30 as stated: a job that deletes the messages of an export and passes
\* its preconditions issues one delete call for each message not newer than
\* the threshold and none for a newer one, goes on after a failed call,
\* stores counters that add up to the number of those messages, removes the
\* file and ends finished.
C30_ImportDeletesAndRemovesFile ==
    \A j \in DOMAIN jobs :
        ImportDone(j) =>
            /\ ImportSweep(j)
            /\ Logged(j, "remove") = <<<<"remove", jobs[j].user_id, "ok">>>>

\* C30, amended: the same, but the file is removed unless os.remove raises;
\* its error is ignored and the job ends finished all the same.
C30_ImportDeletesAndTriesToRemoveFile ==
    \A j \in DOMAIN jobs :
        ImportDone(j) =>
            /\ ImportSweep(j)
            /\ Len(Logged(j, "remove")) = 1

\* the call for the first message failed, the call for the second was made,
\* no call was made for the message of 5 days ago, and the job is finished
C30_Witness ==
    \E j \in DOMAIN jobs :
        /\ ImportDone(j)
        /\ Logged(j, "dm") = <<<<"dm", 31, "error">>, <<"dm", 32, "ok">>>>
        /\ Len(ext.dms) = 3
        /\ loc[j].saved.dms_deleted = 1 /\ loc[j].saved.dms_skipped = 1

(***************************************************************************)
(* A delete job that was canceled before its body starts, under Spec.      *)
(***************************************************************************)
\* the body of delete job j is about to start and the row of j is canceled
CanceledAtBodyStart(j) ==
    /\ jobs[j].job_type = "delete"
    /\ pc[j] = "d_start"
    /\ jobs[j].status = "canceled"

\* C31: the step of a delete job whose status is canceled when its body
\* starts ends the job: the status stays canceled, no post or like is marked
\* deleted, no call is made and no job is created.
C31_CanceledDeleteDoesNothing ==
    [][\A j \in DOMAIN jobs :
          (CanceledAtBodyStart(j) /\ pc'[j] # pc[j]) =>
              /\ pc'[j] = "done"
              /\ jobs' = jobs
              /\ waiting' = waiting
              /\ tweets' = tweets
              /\ likes' = likes
              /\ calls' = calls]_vars

\* a delete job passed its guards, found its row canceled and ended: the
\* row was canceled by a pause (no finished timestamp), no call was made
\* and every post the selector returns is still there
C31_Witness ==
    \E j \in DOMAIN jobs :
        /\ jobs[j].job_type = "delete"
        /\ jobs[j].status = "canceled"
        /\ ~jobs[j].finished_timestamp
        /\ pc[j] = "done"
        /\ calls[j] = <<>>
        /\ \E t \in DOMAIN tweets : ~tweets[t].is_deleted

(***************************************************************************)
(* The since marker of an account, under Spec.                             *)
(***************************************************************************)
\* the posts and the likes the service returns to fetch job j, which asks
\* for what follows the marker it read when it started
SeenPosts(j) == Range(Timeline(loc[j].since_id))
SeenLikes(j) == Range(LikesTimeline(loc[j].since_id))

\* the external ids of the posts on record for user u
StoredPostIds(u) ==
    {tweets[t].twitter_id : t \in {x \in DOMAIN tweets : tweets[x].user_id = u}}

\* fetch job j ends in this step
FetchEnds(j) ==
    /\ jobs[j].job_type = "fetch"
    /\ pc[j] = "f_finish"
    /\ pc'[j] = "done"

\* the marker of no account goes down
SinceNeverDecreases ==
    \A u \in DOMAIN users : users'[u].since_id >= users[u].since_id

\* C32 as stated: when a fetch job ends the since marker of its user is the
\* largest external id among the posts and the likes the fetch has seen,
\* and the marker never decreases.
C32_SinceIsMaxOfPostsAndLikes ==
    [][/\ \A j \in DOMAIN jobs :
             FetchEnds(j) =>
                users'[jobs[j].user_id].since_id
                    = Max(SeenPosts(j) \cup SeenLikes(j) \cup {NoSince})
       /\ SinceNeverDecreases]_vars

\* C32, amended: when a fetch job ends the since marker of its user is the
\* largest external id among the posts on record for the user, which is no
\* less than the id of any post the fetch has seen; the likes do not count;
\* and the marker never decreases.
C32_SinceIsMaxOfStoredPosts ==
    [][/\ \A j \in DOMAIN jobs :
             FetchEnds(j) =>
                LET u == jobs[j].user_id
                IN  /\ users'[u].since_id = Max(StoredPostIds(u) \cup {NoSince})
                    /\ SeenPosts(j) \subseteq StoredPostIds(u)
       /\ SinceNeverDecreases]_vars

\* a fetch job has ended that saw a like whose id is above every post: the
\* like is on record and the marker is the largest id of a post
C32_Witness ==
    \E j \in DOMAIN jobs :
        /\ jobs[j].job_type = "fetch"
        /\ jobs[j].status = "finished"
        /\ pc[j] = "done"
        /\ users[1].since_id = MaxStatus
        /\ \E x \in DOMAIN likes :
              likes[x].user_id = 1 /\ likes[x].twitter_id > users[1].since_id

(***************************************************************************)
(* The records and the counters of a fetch job whose paginations start     *)
(* over, under SpecFetch.                                                  *)
(***************************************************************************)
\* no two rows of a table stand for the same item of the same owner
OneRecordEach ==
    /\ \A a, b \in DOMAIN tweets :
          (tweets[a].user_id = tweets[b].user_id
              /\ tweets[a].twitter_id = tweets[b].twitter_id) => a = b
    /\ \A a, b \in DOMAIN likes :
          (likes[a].user_id = likes[b].user_id
              /\ likes[a].twitter_id = likes[b].twitter_id) => a = b
    /\ \A a, b \in DOMAIN threads :
          (threads[a].user_id = threads[b].user_id
              /\ threads[a].conversation_id = threads[b].conversation_id) => a = b

\* fetch job j is through with both paginations
Imported(j) ==
    /\ jobs[j].job_type = "fetch"
    /\ pc[j] \in {"f_since", "f_reset", "f_mark", "f_finish", "done"}
    /\ jobs[j].user_id \in DOMAIN users
    /\ loc[j].usr # NoUser

Foreign2 == 22

AnyReplyLinks ==
    {f \in [StatusIds \cup {Foreign, Foreign2} ->
               {NoParent, Foreign, Foreign2} \cup StatusIds] :
        /\ f[Foreign] \in {NoParent, Foreign2}
        /\ f[Foreign2] \in {NoParent, Foreign}
        /\ \A s \in StatusIds : f[s] = Foreign \/ f[s] = NoParent
                                   \/ (f[s] \in StatusIds /\ f[s] < s)}

InitWalk ==
    /\ now = Now0
    /\ selected = NotCalled
    /\ recomputed = NotRecomputed
    /\ FirstJob("fetch")
    /\ users = (1 :> EngineUser(TRUE))
    /\ \E f \in AnyReplyLinks :
          ext = [parent |-> f, retweets |-> {}, liked |-> <<LikedStatus>>,
                 fascist |-> FALSE, rate_limits |-> 0, dms |-> <<>>,
                 follow_errors |-> FALSE, lanes |-> FALSE,
                 crashes |-> FALSE]
    /\ tweets = <<>>
    /\ threads = <<>>
    /\ likes = <<>>
    /\ nags = {}
    /\ tips = {}

SpecWalk == InitWalk /\ [][NextFetch]_vars /\ WF_vars(NextFetch)

\* C36: the walk along the reply links of a post of the fetch job (job 1)
\* ends, whatever finite set of links the lookups return or the cache
\* holds, a cycle included.
C36_ThreadWalkTerminates ==
    (pc[1] = "f_resolve") ~> (pc[1] # "f_resolve")

\* the walk of a post is at a status whose links lead back to it, and both
\* links are in the cache
C36_Cycle ==
    \E j \in DOMAIN jobs :
        /\ pc[j] = "f_resolve"
        /\ loc[j].reply_to \in DOMAIN loc[j].cache
        /\ loc[j].cache[loc[j].reply_to].parent \in DOMAIN loc[j].cache
        /\ loc[j].cache[loc[j].cache[loc[j].reply_to].parent].parent
              = loc[j].reply_to

(***************************************************************************)
(* The delete jobs of an account, under Spec.                              *)
(***************************************************************************)
\* the delete jobs of user u that are pending or active
OpenDeletes(u) ==
    {j \in PendingOrActive(u) : jobs[j].job_type = "delete"}

\* C34: an account has at most one delete job that is pending or active,
\* however the start and the pause of the dashboard interleave with a
\* delete job that runs and with the job it schedules when it ends.
C34_OneOpenDeletePerAccount ==
    \A u \in DOMAIN users : Cardinality(OpenDeletes(u)) <= 1

(***************************************************************************)
(* The finished timestamp of the jobs that have ended.                     *)
(***************************************************************************)
\* C35: every job whose status is finished or canceled has its finished
\* timestamp set, whichever path wrote the status: the end of the workflow,
\* the credential guard, a precondition of the job that deletes the
\* messages of an export, or a pause on the dashboard.
C35_TerminalJobsHaveFinishedTimestamp ==
    \A j \in DOMAIN jobs :
        jobs[j].status \in {"finished", "canceled"} => jobs[j].finished_timestamp

\* a job that deletes the messages of an export was canceled by one of its
\* preconditions, which wrote the started timestamp
C35_CanceledByPrecondition ==
    \E j \in DOMAIN jobs :
        /\ jobs[j].job_type \in {"delete_dms", "delete_dm_groups"}
        /\ jobs[j].status = "canceled"
        /\ pc[j] = "done"
        /\ ~jobs[j].finished_timestamp

(***************************************************************************)
(* A fetch job and a delete job of one account that run at the same time,  *)
(* each on a worker of its own.  The account has fetched the reply chain   *)
(* of the service, whose status 2 protects the thread, and started its     *)
(* delete job; it pressed pause while the job was active, which cancels    *)
(* the job without stopping it, and asked for a fetch, which a second      *)
(* worker has taken.                                                       *)
(***************************************************************************)
RaceTweets ==
    [s \in StatusIds |->
        TweetRow(s, 1, 1, StatusCreatedAt(s), FALSE, FALSE, FALSE, 1,
                 StatusCount(s), StatusCount(s))]

InitRace ==
    /\ now = Now0
    /\ selected = NotCalled
    /\ recomputed = NotRecomputed
    /\ \E rl \in BOOLEAN, protect \in BOOLEAN :
          users = (1 :> [EngineUser(TRUE) EXCEPT !.since_id = MaxStatus,
                                                 !.retweets_likes = rl,
                                                 !.tweets_threads_threshold = protect])
    /\ tweets = RaceTweets
    /\ threads = (1 :> ThreadRow(1, 1, users[1].tweets_threads_threshold))
    /\ likes = (1 :> LikeRow(LikedStatus, 1, LikedCreatedAt(LikedStatus), FALSE))
    /\ ext = Service("chain", FALSE)
    /\ jobs = <<[JobRow("delete", 1, "web", NoData) EXCEPT !.status = "canceled"],
                JobRow("fetch", 1, "web", NoData)>>
    /\ waiting = {}
    /\ pc = <<"d_user", "creds">>
    /\ loc = <<NoLoc, NoLoc>>
    /\ calls = <<<<>>, <<>>>>
    /\ nags = {}
    /\ tips = {}

NextRace ==
    \/ \E j \in DOMAIN jobs :
          \/ Start(j)
          \/ GuardCreds(j)
          \/ GuardFollow(j)
          \/ FetchStep(j)
          \/ DeleteStep(j)
          \/ DmStep(j)
    \/ Elapse

SpecRace == InitRace /\ [][NextRace]_vars

\* post t is in a thread that the exclusion rule protects: thread
\* protection is on and the thread holds a live post, not a retweet, at or
\* above both thresholds
InProtectedThread(t) ==
    LET u == tweets[t].user_id
    IN  /\ u \in DOMAIN users
        /\ users[u].tweets_threads_threshold
        /\ HasProtectingPost(tweets[t].thread_id, users[u])

\* C37: while a fetch job and a delete job of one account interleave, no
\* post of a thread that the exclusion rule protects is marked deleted or
\* given to destroy_status: the selector never reads the flags between the
\* reset and the reassignment.
C37_ProtectedThreadSurvivesInterleaving ==
    \A t \in DOMAIN tweets :
        InProtectedThread(t) =>
            /\ ~tweets[t].is_deleted
            /\ \A j \in DOMAIN jobs :
                  tweets[t].twitter_id \notin CalledFor(j, "tweet")

\* the delete job is about to read the posts to delete while the fetch job
\* is between the reset of the flags and their reassignment
C37_SelectorInsideRecompute ==
    \E j, k \in DOMAIN jobs :
        /\ pc[j] = "d_tweets"
        /\ pc[k] = "f_mark"
        /\ users[1].tweets_threads_threshold
        /\ ~threads[1].should_exclude

(***************************************************************************)
(* A delete job of an account that sets and clears the manual exclusion of *)
(* its posts while the job runs.  Post 4 is a retweet or not, and is       *)
(* excluded or not when the job starts.                                    *)
(***************************************************************************)
InitToggle ==
    /\ now = Now0
    /\ selected = NotCalled
    /\ recomputed = NotRecomputed
    /\ FirstJob("delete")
    /\ users = (1 :> [DefaultUser(1) EXCEPT !.paused = FALSE])
    /\ threads = SelThreads
    /\ \E rt \in BOOLEAN, excl \in BOOLEAN :
          tweets = [SelBaseTweets EXCEPT ![4].is_retweet = rt,
                                         ![4].exclude_from_delete = excl]
    /\ likes = <<>>
    /\ ext = Service("roots", FALSE)
    /\ nags = {}
    /\ tips = {}

NextToggle ==
    \/ \E j \in DOMAIN jobs :
          \/ Start(j)
          \/ GuardCreds(j)
          \/ GuardFollow(j)
          \/ DeleteStep(j)
          \/ DmStep(j)
    \/ \E u \in DOMAIN users, t \in DOMAIN tweets, exclude \in BOOLEAN :
          ApiPostTweets(u, t, exclude)
    \/ Elapse

SpecToggle == InitToggle /\ [][NextToggle]_vars

\* a call of destroy_status is made for post t in this step
DestroyCalled(t) ==
    \E j \in DOMAIN jobs :
        /\ Len(calls'[j]) = Len(calls[j]) + 1
        /\ calls'[j][Len(calls'[j])][1] \in {"tweet", "retweet"}
        /\ calls'[j][Len(calls'[j])][2] = tweets[t].twitter_id

\* C38: a delete job makes no destroy call for, and sets no tombstone on, a
\* post whose manual exclusion is set at the moment of the call, be it a
\* retweet of the unretweet pass or a post of the selector, and also when
\* the exclusion is set while the loop runs.
C38_ExcludedPostNeverDestroyed ==
    [][\A t \in DOMAIN tweets :
          (DestroyCalled(t) \/ (tweets'[t].is_deleted /\ ~tweets[t].is_deleted))
              => ~tweets[t].exclude_from_delete]_vars

\* the delete job has read the posts to delete, and a post of its list has
\* its exclusion set
C38_ExcludedInList ==
    \E j \in DOMAIN jobs :
        /\ pc[j] = "d_destroy"
        /\ loc[j].list # <<>>
        /\ tweets[Head(loc[j].list)].exclude_from_delete

(***************************************************************************)
(* The delete jobs of a paused account, under SpecGuard.  Nothing there    *)
(* unpauses an account, and only the credential guard of the job itself,   *)
(* which ends the job, pauses it: an account that is paused while the body *)
(* of its job runs was paused when the body started.                       *)
(***************************************************************************)
\* the body of delete job j has started and the account of the job is paused
PausedInBody(j) ==
    /\ jobs[j].job_type = "delete"
    /\ pc[j] \notin {"idle", "creds", "follow"}
    /\ jobs[j].user_id \in DOMAIN users
    /\ users[jobs[j].user_id].paused

\* the calls of job j that delete an item; the row of the item is marked
\* deleted in the step of the call
DestroyCalls(j) ==
    SelectSeq(calls[j], LAMBDA c : c[1] \in {"tweet", "retweet", "like", "dm"})

\* C39: a delete job of an account that is paused when the body of the job
\* starts makes no destroy call and marks nothing deleted.
C39_PausedAccountDeletesNothing ==
    \A j \in DOMAIN jobs : PausedInBody(j) => DestroyCalls(j) = <<>>

\* the body of a pending delete job starts while the account is paused
C39_BodyStartsPaused ==
    \E j \in DOMAIN jobs :
        /\ PausedInBody(j)
        /\ pc[j] = "d_start"
        /\ jobs[j].status = "pending"

(***************************************************************************)
(* The guarded jobs when the workers keep running: a step that can be      *)
(* taken is taken in the end.  The calls of the service fail a bounded     *)
(* number of times.                                                        *)
(***************************************************************************)
SpecGuardFair == InitGuard /\ [][NextGuard]_vars /\ WF_vars(NextGuard)

\* job j is active
Active(j) == j \in DOMAIN jobs /\ jobs[j].status = "active"

\* job j has reached a terminal status
Terminal(j) == j \in DOMAIN jobs /\ jobs[j].status \in {"finished", "canceled"}

\* C40: every job that becomes active reaches finished or canceled in the
\* end, the job whose export file does not decode included.
C40_ActiveJobsEnd ==
    \A j \in 1..(MaxJobs + MaxDms) : Active(j) ~> Terminal(j)

\* the handler of the undecodable export has raised: the execution of the
\* job has ended and its row is active
C40_StuckActive ==
    \E j \in DOMAIN jobs :
        /\ jobs[j].job_type \in {"delete_dms", "delete_dm_groups"}
        /\ pc[j] = "failed"
        /\ jobs[j].status = "active"

====
